---- MODULE Spec2Model ----
(***************************************************************************)
(* TrackMate MCP: carrier detection, the Sweet Tracker client (track and   *)
(* track_auto_detect) and the tools that call it.                          *)
(*                                                                         *)
(* Text is modelled as a sequence of characters, one one-character (or     *)
(* one-syllable, romanised) string per element, so that len(), startswith, *)
(* isdigit, lower, replace, split and the `in` substring test are computed *)
(* the way Python computes them.                                           *)
(***************************************************************************)
EXTENDS Integers, Sequences, FiniteSets, TLC

(* ------------------------------ bounds --------------------------------- *)

\* longest string fed to detect_carrier_from_tracking in SpecDetect
MaxLen == 14
\* longest comma-separated list fed to my_packages, in pieces
MaxPieces == 12

(* ------------------------- Python values ------------------------------- *)

\* Python's None, as a text no string equals
None == <<"None">>
\* the value of a key that a JSON object does not have
Absent == <<"Absent">>

\* dict.get(key, default), given the stored value v
Get(v, default) == IF v = Absent THEN default ELSE v

Rep(c, n) == [i \in 1..n |-> c]

Digits == {"0", "1", "2", "3", "4", "5", "6", "7", "8", "9"}

\* str.isdigit(): non-empty and every character a digit
isdigit(s) == Len(s) > 0 /\ \A i \in 1..Len(s) : s[i] \in Digits

\* str.startswith(p)
startswith(s, p) == Len(s) >= Len(p) /\ SubSeq(s, 1, Len(p)) = p

\* Python's `sub in s` on strings
Contains(sub, s) ==
    \E i \in 0..(Len(s) - Len(sub)) : SubSeq(s, i + 1, i + Len(sub)) = sub

\* str.lower() on one character: only the Latin capitals change
LowerCh(c) ==
    CASE c = "A" -> "a" [] c = "U" -> "u" [] c = "T" -> "t" [] c = "O" -> "o"
      [] c = "S" -> "s" [] c = "M" -> "m" [] c = "C" -> "c" [] c = "J" -> "j"
      [] OTHER -> c

lower(s) == [i \in 1..Len(s) |-> LowerCh(s[i])]

\* characters of the class [\s\-_.] removed by normalize_tracking_number
Separators == {" ", "-", "_", "."}

RECURSIVE RemoveAll(_, _)
RemoveAll(s, cs) ==
    IF s = <<>> THEN <<>>
    ELSE IF Head(s) \in cs THEN RemoveAll(Tail(s), cs)
    ELSE <<Head(s)>> \o RemoveAll(Tail(s), cs)

normalize_tracking_number(raw) == RemoveAll(raw, Separators)

\* whitespace removed by str.strip()
Whitespace == {" "}

RECURSIVE lstrip(_)
lstrip(s) == IF s # <<>> /\ Head(s) \in Whitespace THEN lstrip(Tail(s)) ELSE s

RECURSIVE rstrip(_)
rstrip(s) ==
    IF s # <<>> /\ s[Len(s)] \in Whitespace THEN rstrip(SubSeq(s, 1, Len(s) - 1)) ELSE s

strip(s) == rstrip(lstrip(s))

\* str.split(sep) for a one-character sep: always at least one piece
RECURSIVE split(_, _)
split(s, sep) ==
    IF \E i \in 1..Len(s) : s[i] = sep
    THEN LET i == CHOOSE k \in 1..Len(s) : s[k] = sep /\ \A j \in 1..(k - 1) : s[j] # sep
         IN  <<SubSeq(s, 1, i - 1)>> \o split(SubSeq(s, i + 1, Len(s)), sep)
    ELSE <<s>>

\* sep.join(pieces)
RECURSIVE join(_, _)
join(pieces, sep) ==
    IF pieces = <<>> THEN <<>>
    ELSE IF Len(pieces) = 1 THEN pieces[1]
    ELSE pieces[1] \o <<sep>> \o join(Tail(pieces), sep)

\* [f(x) for x in xs if keep(x)] with keep = non-empty
RECURSIVE NonEmpty(_)
NonEmpty(xs) ==
    IF xs = <<>> THEN <<>>
    ELSE IF Head(xs) # <<>> THEN <<Head(xs)>> \o NonEmpty(Tail(xs))
    ELSE NonEmpty(Tail(xs))

(* --------------------------- carrier_info ------------------------------ *)

\* Sweet Tracker carrier codes are two-character strings
C04 == <<"0", "4">>
C08 == <<"0", "8">>
C05 == <<"0", "5">>
C01 == <<"0", "1">>
C06 == <<"0", "6">>
C11 == <<"1", "1">>
C23 == <<"2", "3">>
C46 == <<"4", "6">>
C24 == <<"2", "4">>
C22 == <<"2", "2">>

\* keys of CARRIERS
CARRIERS == {C04, C08, C05, C01, C06, C11, C23, C46, C24, C22}

\* Carrier.name of a key of CARRIERS, romanised, one token
CarrierNameOf(code) ==
    CASE code = C04 -> <<"CJ-daehantongun">>
      [] code = C08 -> <<"Lotte-taekbae">>
      [] code = C05 -> <<"Hanjin-taekbae">>
      [] code = C01 -> <<"Ucheguk-taekbae">>
      [] code = C06 -> <<"Logen-taekbae">>
      [] code = C11 -> <<"Ilyang-logis">>
      [] code = C23 -> <<"Kyungdong-taekbae">>
      [] code = C46 -> <<"CU-pyeonuijeom-taekbae">>
      [] code = C24 -> <<"Daesin-taekbae">>
      [] code = C22 -> <<"Daehantongun">>

\* get_carrier_by_code: the key of the Carrier found, or None
get_carrier_by_code(code) == IF code \in CARRIERS THEN code ELSE None

\* carrier.name if carrier else f"taekbaesa {carrier_code}"
carrier_name_of(carrier_code) ==
    IF get_carrier_by_code(carrier_code) # None
    THEN CarrierNameOf(carrier_code)
    ELSE <<"taekbaesa ">> \o carrier_code

\* the rules with the 13-digit rule tried first
detect_carrier_from_tracking_postFirst(tracking_number) ==
    IF Len(tracking_number) = 13 /\ isdigit(tracking_number)
    THEN C01
    ELSE IF startswith(tracking_number, <<"6">>) /\ Len(tracking_number) \in {12, 13}
    THEN C04
    ELSE IF Len(tracking_number) = 11 /\ isdigit(tracking_number)
    THEN C06
    ELSE None

\* the rules with a 6-prefix rule that forgot length 12
detect_carrier_from_tracking_only13(tracking_number) ==
    IF startswith(tracking_number, <<"6">>) /\ Len(tracking_number) = 13
    THEN C04
    ELSE IF Len(tracking_number) = 13 /\ isdigit(tracking_number)
    THEN C01
    ELSE IF Len(tracking_number) = 11 /\ isdigit(tracking_number)
    THEN C06
    ELSE None

\* the 6-prefix rule carries no isdigit() test
detect_carrier_from_tracking(tracking_number) ==
    IF startswith(tracking_number, <<"6">>) /\ Len(tracking_number) \in {12, 13}
    THEN C04
    ELSE IF Len(tracking_number) = 13 /\ isdigit(tracking_number)
    THEN C01
    ELSE IF Len(tracking_number) = 11 /\ isdigit(tracking_number)
    THEN C06
    ELSE None

(* --------------------------- sweet_tracker ----------------------------- *)

\* raw carrier statuses, one romanised syllable per character
StDelivered == <<"bae", "dal", "wan", "ryo">>
StDeparted  == <<"bae", "dal", "chul", "bal">>
StPickup    == <<"jip", "hwa", "cheo", "ri">>
StLoaded    == <<"gan", "seon", "sang", "cha">>
StUnloaded  == <<"gan", "seon", "ha", "cha">>
StSM        == <<"S", "M", "ip", "go">>
StReturned  == <<"ban", "song">>

\* locations
LocGu  == <<"seo", "ul", " ", "gang", "nam", "gu">>
LocHUB == <<"seo", "ul", " ", "H", "U", "B">>

\* a time string: its strftime format and how long before now it lies
TimeStr(days, hours) == <<"%Y-%m-%d %H:%M", "hours ago", days * 24 + hours>>

\* TrackingEvent(time, status, location, detail)
TrackingEvent(t, s, l, d) == [time |-> t, status |-> s, location |-> l, detail |-> d]

\* the TrackingResult built on every failure path of track
FailedResult(tracking_number, carrier_code, carrier_name, error_message) ==
    [success |-> FALSE,
     tracking_number |-> tracking_number,
     carrier_code |-> carrier_code,
     carrier_name |-> carrier_name,
     sender |-> None, receiver |-> None, item_name |-> None,
     events |-> <<>>,
     current_status |-> <<"johoe silpae">>,
     is_delivered |-> FALSE,
     error_message |-> error_message]

\* the four scenarios of _generate_mock_result, indexed 0..3
MockScenarios ==
    <<[events |-> <<TrackingEvent(TimeStr(2, 0), StPickup, LocGu, <<"sangpum-insu">>),
                    TrackingEvent(TimeStr(1, 18), StLoaded, LocHUB, StLoaded),
                    TrackingEvent(TimeStr(1, 6), StUnloaded, LocHUB, StUnloaded),
                    TrackingEvent(TimeStr(0, 3), StSM, LocGu, <<"gisa-insu">>)>>,
       current_status |-> StSM, is_delivered |-> FALSE],
      [events |-> <<TrackingEvent(TimeStr(1, 0), StPickup, LocGu, <<"sangpum-insu">>),
                    TrackingEvent(TimeStr(0, 12), StLoaded, LocHUB, StLoaded),
                    TrackingEvent(TimeStr(0, 6), StUnloaded, LocHUB, StUnloaded),
                    TrackingEvent(TimeStr(0, 2), StSM, LocGu, <<"gisa-insu">>),
                    TrackingEvent(TimeStr(0, 1), StDeparted, LocGu, StDeparted)>>,
       current_status |-> StDeparted, is_delivered |-> FALSE],
      [events |-> <<TrackingEvent(TimeStr(2, 0), StPickup, LocGu, <<"sangpum-insu">>),
                    TrackingEvent(TimeStr(1, 0), StLoaded, LocHUB, StLoaded),
                    TrackingEvent(TimeStr(0, 8), StSM, LocGu, <<"gisa-insu">>),
                    TrackingEvent(TimeStr(0, 6), StDeparted, LocGu, StDeparted),
                    TrackingEvent(TimeStr(0, 5), StDelivered, LocGu, StDelivered)>>,
       current_status |-> StDelivered, is_delivered |-> TRUE],
      [events |-> <<TrackingEvent(TimeStr(5, 0), StPickup, LocGu, <<"sangpum-insu">>),
                    TrackingEvent(TimeStr(4, 0), StLoaded, LocHUB, StLoaded),
                    TrackingEvent(TimeStr(3, 0), StUnloaded, LocHUB, StUnloaded)>>,
       current_status |-> StUnloaded, is_delivered |-> FALSE]>>

\* hash(tracking_number) % len(scenarios): str hashes are salted per process
ScenarioIdx == 0..(Len(MockScenarios) - 1)

_generate_mock_result(tracking_number, carrier_code, scenario_idx) ==
    LET scenario == MockScenarios[scenario_idx + 1] IN
    [success |-> TRUE,
     tracking_number |-> tracking_number,
     carrier_code |-> carrier_code,
     carrier_name |-> carrier_name_of(carrier_code),
     sender |-> <<"test-seller">>, receiver |-> <<"test-customer">>,
     item_name |-> <<"test-item">>,
     events |-> scenario.events,
     current_status |-> scenario.current_status,
     is_delivered |-> scenario.is_delivered,
     error_message |-> None]

\* one entry of trackingDetails -> TrackingEvent
ParseDetail(detail) ==
    TrackingEvent(Get(detail.timeString, <<>>), Get(detail.kind, <<>>),
                  Get(detail.where, <<>>), Get(detail.remark, None))

\* the delivered test with its "and" and "or" re-associated
DeliveredByStatus_reassociated(current_status) ==
    LET last_status == lower(current_status) IN
    (Contains(<<"wan", "ryo">>, last_status) \/ Contains(<<"bae", "dal">>, last_status))
      /\ ~Contains(<<"chul", "bal">>, last_status)

\* events[-1].status is lowered: None has no lower()
DeliveredByStatus(current_status) ==
    LET last_status == lower(current_status) IN
    Contains(<<"wan", "ryo">>, last_status)
      \/ (Contains(<<"bae", "dal">>, last_status)
            /\ ~Contains(<<"chul", "bal">>, last_status))

\* a parse that lists the newest entry first
ParsePayload_newestFirst(tracking_number, carrier_code, carrier_name, data) ==
    LET tracking_details == IF data.trackingDetails.tag = "absent"
                            THEN <<>> ELSE data.trackingDetails.items
        n == Len(tracking_details)
        events == [i \in 1..n |-> ParseDetail(tracking_details[n + 1 - i])]
        current_status == IF events # <<>> THEN events[Len(events)].status
                          ELSE <<"jeongbo eopseum">>
        is_delivered == (events # <<>> /\ DeliveredByStatus(current_status))
                          \/ data.completeYN = <<"Y">>
    IN  [success |-> TRUE,
         tracking_number |-> tracking_number,
         carrier_code |-> carrier_code,
         carrier_name |-> carrier_name,
         sender |-> Get(data.senderName, None),
         receiver |-> Get(data.receiverName, None),
         item_name |-> Get(data.itemName, None),
         events |-> events,
         current_status |-> current_status,
         is_delivered |-> is_delivered,
         error_message |-> None]

\* the result built from a payload that passed the API-error check
ParsePayload(tracking_number, carrier_code, carrier_name, data) ==
    LET tracking_details == IF data.trackingDetails.tag = "absent"
                            THEN <<>> ELSE data.trackingDetails.items
        events == [i \in 1..Len(tracking_details) |-> ParseDetail(tracking_details[i])]
        current_status == IF events # <<>> THEN events[Len(events)].status
                          ELSE <<"jeongbo eopseum">>
        is_delivered == (events # <<>> /\ DeliveredByStatus(current_status))
                          \/ data.completeYN = <<"Y">>
    IN  [success |-> TRUE,
         tracking_number |-> tracking_number,
         carrier_code |-> carrier_code,
         carrier_name |-> carrier_name,
         sender |-> Get(data.senderName, None),
         receiver |-> Get(data.receiverName, None),
         item_name |-> Get(data.itemName, None),
         events |-> events,
         current_status |-> current_status,
         is_delivered |-> is_delivered,
         error_message |-> None]

\* parsing raises (caught by `except Exception`) when trackingDetails is null
\* or the last entry's kind is null
ParseRaises(data) ==
    \/ data.trackingDetails.tag = "null"
    \/ /\ data.trackingDetails.tag = "list"
       /\ data.trackingDetails.items # <<>>
       /\ data.trackingDetails.items[Len(data.trackingDetails.items)].kind = None

\* a failure result that still carries the events of the payload
ApiErrorResult_keepsEvents(tracking_number, carrier_code, carrier_name, data) ==
    [FailedResult(tracking_number, carrier_code, carrier_name,
                  Get(data.msg, <<"johoe-e silpaehaetseumnida">>))
       EXCEPT !.events = IF ParseRaises(data) THEN <<>>
                         ELSE ParsePayload(tracking_number, carrier_code,
                                           carrier_name, data).events]

\* a failure result whose delivered flag follows completeYN
ApiErrorResult_delivered(tracking_number, carrier_code, carrier_name, data) ==
    [FailedResult(tracking_number, carrier_code, carrier_name,
                  Get(data.msg, <<"johoe-e silpaehaetseumnida">>))
       EXCEPT !.is_delivered = (data.completeYN = <<"Y">>)]

\* the result for a payload with status == "false" or a msg key:
\* error_message=data.get("msg", default)
ApiErrorResult(tracking_number, carrier_code, carrier_name, data) ==
    FailedResult(tracking_number, carrier_code, carrier_name,
                 Get(data.msg, <<"johoe-e silpaehaetseumnida">>))

\* SweetTrackerClient.track with mock_mode off, given what the one
\* client.get produced
track(tracking_number, carrier_code, outcome) ==
    LET carrier_name == carrier_name_of(carrier_code) IN
    CASE outcome.kind = "http_status" ->
           FailedResult(tracking_number, carrier_code, carrier_name,
                        <<"API error: ", outcome.status_code>>)
      [] outcome.kind = "timeout" ->
           FailedResult(tracking_number, carrier_code, carrier_name,
                        <<"API timeout">>)
      [] outcome.kind = "exception" ->
           FailedResult(tracking_number, carrier_code, carrier_name,
                        <<"error: ", outcome.text>>)
      [] outcome.kind = "json" ->
           IF outcome.data.status = <<"false">> \/ outcome.data.msg # Absent
           THEN ApiErrorResult(tracking_number, carrier_code, carrier_name,
                               outcome.data)
           ELSE IF ParseRaises(outcome.data)
           THEN FailedResult(tracking_number, carrier_code, carrier_name,
                             <<"error: ", "TypeError">>)
           ELSE ParsePayload(tracking_number, carrier_code, carrier_name,
                             outcome.data)

\* a list that lost its last carrier
major_carriers_short == <<C04, C08, C05, C01>>

\* major_carriers of track_auto_detect: CJ, Lotte, Hanjin, Korea Post, Logen
major_carriers == <<C04, C08, C05, C01, C06>>

\* the synthetic result of track_auto_detect when every attempt failed
NotFoundResult(tracking_number) ==
    [success |-> FALSE,
     tracking_number |-> tracking_number,
     carrier_code |-> <<>>,
     carrier_name |-> <<"al su eopseum">>,
     sender |-> None, receiver |-> None, item_name |-> None,
     events |-> <<>>,
     current_status |-> <<"johoe silpae">>,
     is_delivered |-> FALSE,
     error_message |-> <<"carrier not found, specify the carrier">>]

(* ------------------------ the upstream provider ------------------------ *)

\* one entry of trackingDetails as the provider sends it
Detail(t, kind, where) == [timeString |-> t, kind |-> kind, where |-> where, remark |-> Absent]

\* values of the trackingDetails key: missing, null, or a list of entries
DetailLists ==
    {[tag |-> "absent"], [tag |-> "null"],
     [tag |-> "list", items |-> <<>>],
     [tag |-> "list", items |-> <<Detail(TimeStr(3, 0), StUnloaded, LocHUB)>>],
     [tag |-> "list", items |-> <<Detail(TimeStr(1, 0), StPickup, LocGu),
                                  Detail(TimeStr(0, 1), StDeparted, LocGu)>>],
     [tag |-> "list", items |-> <<Detail(TimeStr(1, 0), StPickup, LocGu),
                                  Detail(TimeStr(0, 5), StDelivered, LocGu)>>],
     [tag |-> "list", items |-> <<Detail(TimeStr(0, 5), None, LocGu)>>]}

\* JSON bodies of /trackingInfo
Payloads ==
    [status : {Absent, <<"false">>},
     msg : {Absent, None, <<"upstream-msg">>},
     completeYN : {Absent, <<"Y">>},
     trackingDetails : DetailLists,
     senderName : {Absent}, receiverName : {Absent}, itemName : {Absent}]

\* what one client.get (with raise_for_status and json) can produce
Responses ==
    {[kind |-> "http_status", status_code |-> "500"],
     [kind |-> "timeout"],
     [kind |-> "exception", text |-> "ConnectError"]}
    \cup {[kind |-> "json", data |-> d] : d \in Payloads}

\* no request has been answered yet
NoResponse == [kind |-> "none"]
\* no TrackingResult has been built yet
NoResult == [success |-> "unset"]
\* the tool has not returned yet
NoOutput == [kind |-> "none"]

(* ------------------------------- tools --------------------------------- *)

AUTO == <<"a", "u", "t", "o">>

\* CARRIER_ALIASES in definition order, as <<alias, code>>
CARRIER_ALIASES ==
    <<<< <<"c", "j", "dae", "han", "tong", "un">>, C04 >>,
      << <<"c", "j", "taek", "bae">>, C04 >>,
      << <<"dae", "han", "tong", "un">>, C04 >>,
      << <<"ssi", "je", "yi", "dae", "han", "tong", "un">>, C04 >>,
      << <<"lot", "de", "taek", "bae">>, C08 >>,
      << <<"lot", "de", "geul", "lo", "beol", "lo", "ji", "seu">>, C08 >>,
      << <<"lot", "de">>, C08 >>,
      << <<"han", "jin", "taek", "bae">>, C05 >>,
      << <<"han", "jin">>, C05 >>,
      << <<"woo", "che", "guk">>, C01 >>,
      << <<"woo", "che", "guk", "taek", "bae">>, C01 >>,
      << <<"woo", "pyeon">>, C01 >>,
      << <<"lo", "jen", "taek", "bae">>, C06 >>,
      << <<"lo", "jen">>, C06 >>,
      << <<"il", "yang", "lo", "ji", "seu">>, C11 >>,
      << <<"il", "yang">>, C11 >>,
      << <<"gyeong", "dong", "taek", "bae">>, C23 >>,
      << <<"gyeong", "dong">>, C23 >>,
      << <<"c", "u", "taek", "bae">>, C46 >>,
      << <<"c", "u", "pyeon", "ui", "jeom">>, C46 >>,
      << <<"ssi", "yu", "taek", "bae">>, C46 >>,
      << <<"dae", "sin", "taek", "bae">>, C24 >>,
      << <<"dae", "sin">>, C24 >>>>

\* CARRIER_ALIASES.get(name)
AliasCode(name) ==
    IF \E i \in 1..Len(CARRIER_ALIASES) : CARRIER_ALIASES[i][1] = name
    THEN CARRIER_ALIASES[CHOOSE i \in 1..Len(CARRIER_ALIASES) :
                            CARRIER_ALIASES[i][1] = name][2]
    ELSE None

\* get_carrier_by_name: the key of the Carrier found, or None
get_carrier_by_name(name) ==
    LET name_lower == RemoveAll(lower(name), {" "})
        code == AliasCode(name_lower)
    IN  IF code # None THEN get_carrier_by_code(code) ELSE None

\* str.zfill(width)
zfill(s, width) == IF Len(s) >= width THEN s ELSE Rep("0", width - Len(s)) \o s

\* a track_package that hands an unknown carrier to track_auto_detect
track_package_plan_fallsBack(raw, carrier) ==
    LET tracking_number == normalize_tracking_number(raw) IN
    IF tracking_number = <<>> THEN [kind |-> "reply", text |-> "enter a tracking number"]
    ELSE IF lower(carrier) = AUTO
    THEN LET carrier_code == detect_carrier_from_tracking(tracking_number) IN
         IF carrier_code # None
         THEN [kind |-> "track", carrier_code |-> carrier_code]
         ELSE [kind |-> "auto"]
    ELSE LET carrier_obj == get_carrier_by_name(carrier)
             carrier_code == IF carrier_obj # None THEN carrier_obj
                             ELSE IF isdigit(carrier) /\ Len(carrier) <= 3
                             THEN zfill(carrier, 2)
                             ELSE None
         IN  IF carrier_code # None
             THEN [kind |-> "track", carrier_code |-> carrier_code]
             ELSE [kind |-> "auto"]

\* what a tool does before its first await: reply at once, or call
\* track(tracking_number, code), or call track_auto_detect(tracking_number)
track_package_plan(raw, carrier) ==
    LET tracking_number == normalize_tracking_number(raw) IN
    IF tracking_number = <<>> THEN [kind |-> "reply", text |-> "enter a tracking number"]
    ELSE IF lower(carrier) = AUTO
    THEN LET carrier_code == detect_carrier_from_tracking(tracking_number) IN
         IF carrier_code # None
         THEN [kind |-> "track", carrier_code |-> carrier_code]
         ELSE [kind |-> "auto"]
    ELSE LET carrier_obj == get_carrier_by_name(carrier)
             carrier_code == IF carrier_obj # None THEN carrier_obj
                             ELSE IF isdigit(carrier) /\ Len(carrier) <= 3
                             THEN zfill(carrier, 2)
                             ELSE None
         IN  IF carrier_code # None
             THEN [kind |-> "track", carrier_code |-> carrier_code]
             ELSE [kind |-> "reply", text |-> "carrier not found"]

\* diagnose_problem, predict_arrival and draft_inquiry share this prefix
other_tool_plan(raw, carrier) ==
    LET tracking_number == normalize_tracking_number(raw) IN
    IF tracking_number = <<>> THEN [kind |-> "reply", text |-> "enter a tracking number"]
    ELSE IF lower(carrier) = AUTO
    THEN LET carrier_code == detect_carrier_from_tracking(tracking_number) IN
         IF carrier_code # None
         THEN [kind |-> "track", carrier_code |-> carrier_code]
         ELSE [kind |-> "auto"]
    ELSE LET carrier_obj == get_carrier_by_name(carrier) IN
         IF carrier_obj # None
         THEN [kind |-> "track", carrier_code |-> carrier_obj]
         ELSE [kind |-> "auto"]

SingleTools == {"track_package", "diagnose_problem", "predict_arrival", "draft_inquiry"}

ToolPlan(t, raw, carrier) ==
    IF t = "track_package" THEN track_package_plan(raw, carrier)
    ELSE other_tool_plan(raw, carrier)

\* what the tool returns once it holds the TrackingResult
ToolOutput(t, r) ==
    IF t = "draft_inquiry" THEN [kind |-> "template", result |-> r]
    ELSE IF r.success THEN [kind |-> "report", result |-> r]
    ELSE [kind |-> "lookup_failed", result |-> r]

(* ------------------------------- state --------------------------------- *)

VARIABLES
    mock_mode,        \* SweetTrackerClient.mock_mode (no API key configured)
    pc,               \* "idle", "track", "auto_first", "auto_major", "done"
    tool,             \* the tool being served, "none" for a direct client call
    carrier,          \* the tool's carrier argument
    raw,              \* the tool's tracking-number(s) argument, as given
    op,               \* the client method invoked: "track" or "auto"
    tracking_number,  \* the client method's tracking_number
    carrier_code,     \* track's carrier_code argument
    detected_code,    \* track_auto_detect's detected_code
    idx,              \* position in major_carriers of the next fetch
    fetched,          \* log of upstream requests: number, code, whether it succeeded
    response,         \* what the last upstream request produced
    result,           \* the last TrackingResult built
    output,           \* what the tool returned
    numbers,          \* my_packages: the parsed list of numbers
    results,          \* my_packages: the TrackingResult of each number so far
    world,            \* Free, or (my_packages) the upstream's answer per number
    arg,              \* the argument of the pure function under analysis
    ret               \* the value that function returned

vars == <<mock_mode, pc, tool, carrier, raw, op, tracking_number, carrier_code,
          detected_code, idx, fetched, response, result, output, numbers,
          results, world, arg, ret>>

(* ------------------------------- inputs -------------------------------- *)

N12_6 == <<"6">> \o Rep("1", 11)
N13_6 == <<"6">> \o Rep("1", 12)
N13   == Rep("1", 13)
N11   == Rep("1", 11)
N12   == Rep("1", 12)

\* tracking numbers handed to the client methods
ClientNumbers == {N12_6, N13_6, N13, N11, N12}

\* carrier codes handed to track
ClientCodes == {C04, C08, C11, <<"9", "9">>}

\* tracking-number arguments of the tools
RawNumbers ==
    {N12_6, N13, N11, N12,
     <<"6", "1", "1", "1", "-", "1", "1", "1", "1", "-", "1", "1", "1", "1">>,
     <<"-">>}

\* carrier arguments of the tools
CarrierArgs ==
    {AUTO, <<"A", "U", "T", "O">>, <<"han", "jin">>,
     <<"C", "J", " ", "taek", "bae">>, <<"4">>, <<"x", "y">>}

\* the upstream answers every request freely
Free == [kind |-> "free"]

(* --------------------------- track_auto_detect ------------------------- *)

\* a cascade that never returns early
StopsCascade_never(r) == FALSE

\* `if result.success: return result` after each fetch
StopsCascade(r) == r.success

\* a loop without the `continue`
NextIdx_noskip(i, detected) == i + 1

\* the next position after i in major_carriers that the loop fetches:
\* `if code == detected_code: continue`
NextIdx(i, detected) ==
    IF \E j \in (i + 1)..Len(major_carriers) : major_carriers[j] # detected
    THEN CHOOSE j \in (i + 1)..Len(major_carriers) :
           /\ major_carriers[j] # detected
           /\ \A k \in (i + 1)..(j - 1) : major_carriers[k] = detected
    ELSE Len(major_carriers) + 1

\* a client that repeats a failed request once
Logged_retry(log, number, code, r) ==
    LET entry == [tracking_number |-> number, carrier_code |-> code, ok |-> r.success]
    IN  IF r.success THEN Append(log, entry) ELSE Append(Append(log, entry), entry)

\* one client.get is issued for (number, code) and answered
Logged(log, number, code, r) ==
    Append(log, [tracking_number |-> number, carrier_code |-> code, ok |-> r.success])

\* the answers the upstream can give to a request for `number`
Answers(number) == IF world.kind = "free" THEN Responses ELSE {world.by[number]}

(* ------------------------ utils/status_translator ---------------------- *)

\* DeliveryPhase
PICKUP           == "pickup"
IN_TRANSIT       == "transit"
OUT_FOR_DELIVERY == "out"
DELIVERED        == "delivered"
ISSUE            == "issue"

\* an estimated_hours of n hours (None when there is no estimate)
Hours(n) == <<"hours", n>>

\* one item of STATUS_TRANSLATIONS: the keyword and its tuple; the two display
\* texts are opaque
Entry(keyword, phase, is_final, est) ==
    [keyword |-> keyword,
     trans |-> <<"trans of">> \o keyword,
     short |-> <<"short of">> \o keyword,
     phase |-> phase,
     emoji |-> <<"emoji of">> \o keyword,
     is_final |-> is_final,
     est |-> est]

KwWanRyo == <<"wan", "ryo">>
KwDoChak == <<"do", "chak">>

\* STATUS_TRANSLATIONS, in the order of the dict literal
STATUS_TRANSLATIONS ==
    << Entry(<<"jeop", "su">>,                 PICKUP, FALSE, Hours(72)),
       Entry(<<"jip", "hwa", "cheo", "ri">>,   PICKUP, FALSE, Hours(48)),
       Entry(<<"jip", "ha">>,                  PICKUP, FALSE, Hours(48)),
       Entry(<<"sang", "pum", "in", "su">>,    PICKUP, FALSE, Hours(48)),
       Entry(<<"gan", "seon", "sang", "cha">>, IN_TRANSIT, FALSE, Hours(24)),
       Entry(<<"gan", "seon", "ha", "cha">>,   IN_TRANSIT, FALSE, Hours(18)),
       Entry(<<"gan", "seon">>,                IN_TRANSIT, FALSE, Hours(24)),
       Entry(<<"haeng", "nang", "po", "jang">>, IN_TRANSIT, FALSE, Hours(24)),
       Entry(<<"bal", "song">>,                IN_TRANSIT, FALSE, Hours(48)),
       Entry(<<"chul", "go">>,                 IN_TRANSIT, FALSE, Hours(48)),
       Entry(<<"ip", "go">>,                   IN_TRANSIT, FALSE, Hours(18)),
       Entry(<<"sang", "cha">>,                IN_TRANSIT, FALSE, Hours(12)),
       Entry(<<"ha", "cha">>,                  IN_TRANSIT, FALSE, Hours(8)),
       Entry(<<"teo", "mi", "neol">>,          IN_TRANSIT, FALSE, Hours(18)),
       Entry(<<"yi", "dong", "jung">>,         IN_TRANSIT, FALSE, Hours(12)),
       Entry(<<"s", "m", "ip", "go">>,        OUT_FOR_DELIVERY, FALSE, Hours(6)),
       Entry(<<"bae", "dal", "chul", "bal">>,  OUT_FOR_DELIVERY, FALSE, Hours(3)),
       Entry(<<"bae", "dal", "jun", "bi">>,    OUT_FOR_DELIVERY, FALSE, Hours(6)),
       Entry(<<"bae", "song", "chul", "bal">>, OUT_FOR_DELIVERY, FALSE, Hours(3)),
       Entry(<<"bae", "dal", "jung">>,         OUT_FOR_DELIVERY, FALSE, Hours(2)),
       Entry(<<"bae", "dal", "wan", "ryo">>,   DELIVERED, TRUE, Hours(0)),
       Entry(<<"bae", "song", "wan", "ryo">>,  DELIVERED, TRUE, Hours(0)),
       Entry(<<"in", "su", "hwak", "in">>,     DELIVERED, TRUE, Hours(0)),
       Entry(<<"su", "ryeong">>,               DELIVERED, TRUE, Hours(0)),
       Entry(KwWanRyo,                         DELIVERED, TRUE, Hours(0)),
       Entry(<<"ban", "song">>,                ISSUE, TRUE, None),
       Entry(<<"mi", "bae", "dal">>,           ISSUE, FALSE, Hours(24)),
       Entry(<<"bo", "gwan">>,                 DELIVERED, TRUE, Hours(0)),
       Entry(<<"bu", "jae">>,                  ISSUE, FALSE, Hours(24)),
       Entry(<<"ju", "so", "bul", "myeong">>,  ISSUE, FALSE, None),
       Entry(<<"su", "chwi", "geo", "bu">>,    ISSUE, TRUE, None),
       Entry(<<"bun", "sil">>,                 ISSUE, TRUE, None) >>

\* raw_status.lower().replace(" ", "")
StatusLower(raw_status) == RemoveAll(lower(raw_status), {" "})

\* the positions of the table whose keyword occurs in status_lower
PartialMatches(status_lower) ==
    {i \in DOMAIN STATUS_TRANSLATIONS :
        Contains(STATUS_TRANSLATIONS[i].keyword, status_lower)}

Min(S) == CHOOSE m \in S : \A n \in S : m <= n

MatchIndex_partialOnly(status_lower) ==
    IF PartialMatches(status_lower) # {}
    THEN Min(PartialMatches(status_lower))
    ELSE 0

\* the table position translate_status answers from: the direct match if there
\* is one, else the first keyword in dict order that occurs in status_lower,
\* else 0
MatchIndex(status_lower) ==
    IF \E i \in DOMAIN STATUS_TRANSLATIONS :
           STATUS_TRANSLATIONS[i].keyword = status_lower
    THEN CHOOSE i \in DOMAIN STATUS_TRANSLATIONS :
             STATUS_TRANSLATIONS[i].keyword = status_lower
    ELSE IF PartialMatches(status_lower) # {}
    THEN Min(PartialMatches(status_lower))
    ELSE 0

FromEntry_notFinal(raw_status, i) ==
    [original |-> raw_status,
     translated |-> STATUS_TRANSLATIONS[i].trans,
     short |-> STATUS_TRANSLATIONS[i].short,
     phase |-> STATUS_TRANSLATIONS[i].phase,
     emoji |-> STATUS_TRANSLATIONS[i].emoji,
     is_final |-> FALSE,
     estimated_hours |-> STATUS_TRANSLATIONS[i].est]

\* the TranslatedStatus of a direct or partial match
FromEntry(raw_status, i) ==
    [original |-> raw_status,
     translated |-> STATUS_TRANSLATIONS[i].trans,
     short |-> STATUS_TRANSLATIONS[i].short,
     phase |-> STATUS_TRANSLATIONS[i].phase,
     emoji |-> STATUS_TRANSLATIONS[i].emoji,
     is_final |-> STATUS_TRANSLATIONS[i].is_final,
     estimated_hours |-> STATUS_TRANSLATIONS[i].est]

\* raw_status[:n]
Prefix(s, n) == SubSeq(s, 1, IF Len(s) < n THEN Len(s) ELSE n)

Unknown_untruncated(raw_status, status_lower) ==
    [original |-> raw_status,
     translated |-> raw_status \o <<" - seems to be on its way">>,
     short |-> raw_status,
     phase |-> IN_TRANSIT,
     emoji |-> <<"package">>,
     is_final |-> FALSE,
     estimated_hours |-> IF Contains(KwDoChak, status_lower) THEN Hours(24) ELSE None]

\* the two "unknown status" returns of translate_status
Unknown(raw_status, status_lower) ==
    IF Contains(KwWanRyo, status_lower) \/ Contains(KwDoChak, status_lower)
    THEN [original |-> raw_status,
          translated |-> raw_status \o <<" - seems to be on its way">>,
          short |-> Prefix(raw_status, 6),
          phase |-> IN_TRANSIT,
          emoji |-> <<"package">>,
          is_final |-> FALSE,
          estimated_hours |-> Hours(24)]
    ELSE [original |-> raw_status,
          translated |-> <<"'">> \o raw_status \o <<"' status, seems to be on its way">>,
          short |-> IF Len(raw_status) > 6 THEN Prefix(raw_status, 6) ELSE raw_status,
          phase |-> IN_TRANSIT,
          emoji |-> <<"package">>,
          is_final |-> FALSE,
          estimated_hours |-> None]

translate_status(raw_status) ==
    LET status_lower == StatusLower(raw_status)
        i == MatchIndex(status_lower)
    IN  IF i # 0 THEN FromEntry(raw_status, i) ELSE Unknown(raw_status, status_lower)

(* ----------------------------- my_packages ----------------------------- *)

\* a cap that lets an eleventh number through
MaxNumbers_raised == 10 + 1

\* the fixed cap of my_packages
MaxNumbers == 10

\* [normalize_tracking_number(n.strip()) for n in s.split(",") if n.strip()]
ParseNumbers(tracking_numbers) ==
    LET pieces == split(tracking_numbers, ",")
        stripped == NonEmpty([i \in 1..Len(pieces) |-> strip(pieces[i])])
    IN  [i \in 1..Len(stripped) |-> normalize_tracking_number(stripped[i])]

\* what my_packages does before its first await
my_packages_plan(tracking_numbers) ==
    IF tracking_numbers = <<>>
    THEN [kind |-> "reply", text |-> "enter tracking numbers"]
    ELSE IF ParseNumbers(tracking_numbers) = <<>>
    THEN [kind |-> "reply", text |-> "no valid tracking number"]
    ELSE IF Len(ParseNumbers(tracking_numbers)) > MaxNumbers
    THEN [kind |-> "reply", text |-> "at most 10 at a time"]
    ELSE [kind |-> "loop", numbers |-> ParseNumbers(tracking_numbers)]

\* a categorisation that asks for the ISSUE phase before the delivered flag
CategoryOf_issueFirst(r) ==
    IF ~r.success THEN "failed"
    ELSE IF translate_status(r.current_status).phase = ISSUE THEN "issues"
    ELSE IF r.is_delivered THEN "delivered"
    ELSE IF translate_status(r.current_status).phase = OUT_FOR_DELIVERY
    THEN "arriving_today"
    ELSE "in_transit"

\* the list the if/elif chain appends a (num, result, status_info) triple to
CategoryOf(r) ==
    IF ~r.success THEN "failed"
    ELSE IF r.is_delivered THEN "delivered"
    ELSE IF translate_status(r.current_status).phase = ISSUE THEN "issues"
    ELSE IF translate_status(r.current_status).phase = OUT_FOR_DELIVERY
    THEN "arriving_today"
    ELSE "in_transit"

\* the positions of the triples appended to one list, in input order
Listed(rs, category) ==
    SelectSeq([i \in 1..Len(rs) |-> i], LAMBDA i : CategoryOf(rs[i]) = category)

\* the summary is built from the (number, result) pairs in input order, each
\* pair in one of the five lists
Summary(nums, rs) ==
    [kind |-> "summary", numbers |-> nums, results |-> rs,
     delivered |-> Listed(rs, "delivered"),
     arriving_today |-> Listed(rs, "arriving_today"),
     in_transit |-> Listed(rs, "in_transit"),
     issues |-> Listed(rs, "issues"),
     failed |-> Listed(rs, "failed")]

(* ------------------------------ actions -------------------------------- *)

Init ==
    /\ mock_mode \in BOOLEAN
    /\ pc = "idle"
    /\ tool = "none"
    /\ carrier = <<>>
    /\ raw = <<>>
    /\ op = "none"
    /\ tracking_number = <<>>
    /\ carrier_code = None
    /\ detected_code = None
    /\ idx = 0
    /\ fetched = <<>>
    /\ response = NoResponse
    /\ result = NoResult
    /\ output = NoOutput
    /\ numbers = <<>>
    /\ results = <<>>
    /\ world = Free
    /\ arg = <<>>
    /\ ret = NoResult

\* the client method returns r to a single-number caller, which finishes
Return(r) ==
    /\ pc' = "done"
    /\ result' = r
    /\ output' = IF tool' = "none" THEN NoOutput ELSE ToolOutput(tool', r)
    /\ results' = results

\* track_auto_detect returns r to my_packages, which goes on with the next
\* number or builds the summary
BulkReturn(r) ==
    LET rs == Append(results, r) IN
    /\ result' = r
    /\ results' = rs
    /\ IF Len(rs) < Len(numbers)
       THEN LET number == numbers[Len(rs) + 1]
                detected == detect_carrier_from_tracking(number)
            IN  /\ tracking_number' = number
                /\ detected_code' = detected
                /\ pc' = IF detected # None THEN "auto_first" ELSE "auto_major"
                /\ idx' = IF detected # None THEN 0 ELSE NextIdx(0, detected)
                /\ output' = output
       ELSE /\ pc' = "done"
            /\ output' = Summary(numbers, rs)
            /\ UNCHANGED <<tracking_number, detected_code, idx>>

\* the client method returns r to whoever called it
Finish(r) ==
    IF tool = "my_packages"
    THEN BulkReturn(r)
    ELSE Return(r) /\ UNCHANGED <<tracking_number, detected_code, idx>>

\* track(number, code) is entered: mock data at once, or the request is sent
EnterTrack(number, code) ==
    /\ op' = "track"
    /\ tracking_number' = number
    /\ carrier_code' = code
    /\ UNCHANGED <<detected_code, idx, fetched, response>>
    /\ IF mock_mode
       THEN \E h \in ScenarioIdx : Return(_generate_mock_result(number, code, h))
       ELSE pc' = "track" /\ UNCHANGED <<result, output, results>>

\* track_auto_detect(number) is entered, up to its first request
EnterAuto(number) ==
    LET detected == detect_carrier_from_tracking(number) IN
    /\ op' = "auto"
    /\ tracking_number' = number
    /\ detected_code' = detected
    /\ UNCHANGED <<carrier_code, fetched, response>>
    /\ IF mock_mode
       THEN /\ idx' = idx
            /\ \E h \in ScenarioIdx :
                 Return(_generate_mock_result(number,
                          IF detected # None THEN detected ELSE C04, h))
       ELSE /\ pc' = IF detected # None THEN "auto_first" ELSE "auto_major"
            /\ idx' = IF detected # None THEN 0 ELSE NextIdx(0, detected)
            /\ UNCHANGED <<result, output, results>>

\* a caller invokes sweet_tracker.track directly
CallTrack ==
    /\ pc = "idle"
    /\ \E number \in ClientNumbers, code \in ClientCodes :
         /\ tool' = "none"
         /\ UNCHANGED <<arg, ret, carrier, raw, mock_mode, numbers, world>>
         /\ EnterTrack(number, code)

\* a caller invokes sweet_tracker.track_auto_detect directly
CallAutoDetect ==
    /\ pc = "idle"
    /\ \E number \in ClientNumbers :
         /\ tool' = "none"
         /\ UNCHANGED <<arg, ret, carrier, raw, mock_mode, numbers, world>>
         /\ EnterAuto(number)

\* track_package, diagnose_problem, predict_arrival or draft_inquiry is called
CallTool ==
    /\ pc = "idle"
    /\ \E t \in SingleTools, r \in RawNumbers, c \in CarrierArgs :
         LET plan == ToolPlan(t, r, c) IN
         /\ tool' = t
         /\ raw' = r
         /\ carrier' = c
         /\ UNCHANGED <<arg, ret, mock_mode, numbers, world>>
         /\ CASE plan.kind = "reply" ->
                   /\ pc' = "done"
                   /\ output' = [kind |-> "reply", text |-> plan.text]
                   /\ UNCHANGED <<op, tracking_number, carrier_code, detected_code,
                                  idx, fetched, response, result, results>>
              [] plan.kind = "track" ->
                   EnterTrack(normalize_tracking_number(r), plan.carrier_code)
              [] plan.kind = "auto" ->
                   EnterAuto(normalize_tracking_number(r))

\* the request of track is answered
TrackAwait ==
    /\ pc = "track"
    /\ \E o \in Answers(tracking_number) :
         LET r == track(tracking_number, carrier_code, o) IN
         /\ fetched' = Logged(fetched, tracking_number, carrier_code, r)
         /\ response' = o
         /\ UNCHANGED <<arg, ret, mock_mode, tool, carrier, raw, op, carrier_code,
                        numbers, world>>
         /\ Finish(r)

\* the request for the pattern-detected carrier is answered
AutoFirst ==
    /\ pc = "auto_first"
    /\ \E o \in Answers(tracking_number) :
         LET r == track(tracking_number, detected_code, o) IN
         /\ fetched' = Logged(fetched, tracking_number, detected_code, r)
         /\ response' = o
         /\ UNCHANGED <<arg, ret, mock_mode, tool, carrier, raw, op, carrier_code,
                        numbers, world>>
         /\ IF StopsCascade(r)
            THEN Finish(r)
            ELSE /\ pc' = "auto_major"
                 /\ idx' = NextIdx(0, detected_code)
                 /\ result' = r
                 /\ UNCHANGED <<tracking_number, detected_code, output, results>>

\* the request for major_carriers[idx] is answered
AutoMajor ==
    /\ pc = "auto_major"
    /\ \E o \in Answers(tracking_number) :
         LET code == major_carriers[idx]
             r == track(tracking_number, code, o)
             next == NextIdx(idx, detected_code)
         IN
         /\ fetched' = Logged(fetched, tracking_number, code, r)
         /\ response' = o
         /\ UNCHANGED <<arg, ret, mock_mode, tool, carrier, raw, op, carrier_code,
                        numbers, world>>
         /\ IF StopsCascade(r)
            THEN Finish(r)
            ELSE IF next > Len(major_carriers)
            THEN Finish(NotFoundResult(tracking_number))
            ELSE /\ pc' = "auto_major"
                 /\ idx' = next
                 /\ result' = r
                 /\ UNCHANGED <<tracking_number, detected_code, output, results>>

\* tracking_numbers arguments of my_packages: n pieces joined by commas, all
\* equal to a base piece except possibly the first or the last
BulkBase == {<<"1">>, N12_6}
BulkOdd == {<<>>, <<" ">>, <<"-">>, <<" ", "1", "-", "2", " ">>, N11}

BulkInputs ==
    {join([i \in 1..n |-> b], ",") : n \in 0..MaxPieces, b \in BulkBase}
    \cup UNION {{join([i \in 1..n |-> IF i = k THEN d ELSE b], ",") :
                    k \in {1, n}, b \in BulkBase, d \in BulkOdd} : n \in 1..MaxPieces}

\* the answers of the upstream during one my_packages call
BulkResponses ==
    {[kind |-> "timeout"]} \cup
    {[kind |-> "json",
      data |-> [status |-> Absent, msg |-> Absent, completeYN |-> Absent,
                trackingDetails |-> dl,
                senderName |-> Absent, receiverName |-> Absent, itemName |-> Absent]] :
        dl \in {[tag |-> "list", items |-> <<Detail(TimeStr(3, 0), StUnloaded, LocHUB)>>],
                [tag |-> "list", items |-> <<Detail(TimeStr(1, 0), StPickup, LocGu),
                                             Detail(TimeStr(0, 5), StDelivered, LocGu)>>],
                [tag |-> "list", items |-> <<Detail(TimeStr(0, 2), StDeparted, LocGu)>>],
                [tag |-> "list", items |-> <<Detail(TimeStr(0, 2), StReturned, LocGu)>>],
                [tag |-> "list",
                 items |-> <<Detail(TimeStr(0, 2), <<"mi", "bae", "dal">>, LocGu)>>]}}

Range(f) == {f[i] : i \in DOMAIN f}

\* my_packages is called
CallMyPackages ==
    /\ pc = "idle"
    /\ \E s \in BulkInputs :
         LET plan == my_packages_plan(s) IN
         /\ tool' = "my_packages"
         /\ raw' = s
         /\ UNCHANGED <<arg, ret, mock_mode, carrier, carrier_code, fetched, response>>
         /\ IF plan.kind = "reply"
            THEN /\ pc' = "done"
                 /\ output' = [kind |-> "reply", text |-> plan.text]
                 /\ UNCHANGED <<op, tracking_number, detected_code, idx, result,
                                numbers, results, world>>
            ELSE /\ numbers' = plan.numbers
                 /\ op' = "auto"
                 /\ IF mock_mode
                    THEN \E h \in [Range(plan.numbers) -> ScenarioIdx] :
                           LET rs == [i \in 1..Len(plan.numbers) |->
                                        LET number == plan.numbers[i]
                                            detected == detect_carrier_from_tracking(number)
                                        IN  _generate_mock_result(number,
                                              IF detected # None THEN detected ELSE C04,
                                              h[number])]
                           IN  /\ results' = rs
                               /\ result' = rs[Len(rs)]
                               /\ tracking_number' = plan.numbers[Len(rs)]
                               /\ detected_code' =
                                    detect_carrier_from_tracking(plan.numbers[Len(rs)])
                               /\ pc' = "done"
                               /\ output' = Summary(plan.numbers, rs)
                               /\ UNCHANGED <<idx, world>>
                    ELSE \E w \in [Range(plan.numbers) -> BulkResponses] :
                           LET number == plan.numbers[1]
                               detected == detect_carrier_from_tracking(number)
                           IN  /\ world' = [kind |-> "fixed", by |-> w]
                               /\ tracking_number' = number
                               /\ detected_code' = detected
                               /\ pc' = IF detected # None THEN "auto_first" ELSE "auto_major"
                               /\ idx' = IF detected # None THEN 0 ELSE NextIdx(0, detected)
                               /\ UNCHANGED <<result, output, results>>

Next ==
    \/ CallTrack
    \/ CallAutoDetect
    \/ CallTool
    \/ TrackAwait
    \/ AutoFirst
    \/ AutoMajor

Spec == Init /\ [][Next]_vars

\* my_packages alone, against an upstream that answers by tracking number
NextBulk ==
    \/ CallMyPackages
    \/ AutoFirst
    \/ AutoMajor

SpecBulk == Init /\ [][NextBulk]_vars

(* --------------------- carrier detection on its own -------------------- *)

DetectAlphabet == {"6", "1", "a"}

\* strings of up to MaxLen characters: a first character, a fill character,
\* and at most one other position that differs
DetectInputs ==
    {[i \in 1..n |-> IF i = 1 THEN f ELSE IF i = p THEN d ELSE c] :
        n \in 0..MaxLen, f \in DetectAlphabet, c \in DetectAlphabet,
        d \in DetectAlphabet, p \in 2..MaxLen}

InitDetect ==
    /\ mock_mode = FALSE
    /\ pc = "idle"
    /\ tool = "none"
    /\ carrier = <<>>
    /\ raw = <<>>
    /\ op = "none"
    /\ tracking_number \in DetectInputs
    /\ carrier_code = None
    /\ detected_code = None
    /\ idx = 0
    /\ fetched = <<>>
    /\ response = NoResponse
    /\ result = NoResult
    /\ output = NoOutput
    /\ numbers = <<>>
    /\ results = <<>>
    /\ world = Free
    /\ arg = <<>>
    /\ ret = NoResult

\* detect_carrier_from_tracking(tracking_number) is evaluated
DetectCall ==
    /\ pc = "idle"
    /\ op' = "detect"
    /\ detected_code' = detect_carrier_from_tracking(tracking_number)
    /\ pc' = "done"
    /\ UNCHANGED <<arg, ret, mock_mode, tool, carrier, raw, tracking_number, carrier_code,
                   idx, fetched, response, result, output, numbers, results, world>>

SpecDetect == InitDetect /\ [][DetectCall]_vars

(* -------------------- translate_status on its own --------------------- *)

\* the longest run of characters outside every keyword put around a status
MaxFill == 7

StatusKeywords == {STATUS_TRANSLATIONS[i].keyword : i \in DOMAIN STATUS_TRANSLATIONS}

\* raw statuses: every keyword, alone, doubled up with every other keyword and
\* next to a foreign character; upper case and spaces; texts with no keyword,
\* with and without "do chak", the empty string included
StatusInputs ==
    StatusKeywords
      \cup {k1 \o k2 : k1 \in StatusKeywords, k2 \in StatusKeywords}
      \cup {<<"x">> \o k : k \in StatusKeywords}
      \cup {k \o <<"x">> : k \in StatusKeywords}
      \cup {StSM, <<"S", "M", " ", "ip", "go">>, <<"bae", "dal", " ", "wan", "ryo">>}
      \cup {Rep("x", n) : n \in 0..MaxFill}
      \cup {Rep("x", a) \o KwDoChak \o Rep("x", b) : a \in 0..MaxFill, b \in 0..MaxFill}
      \cup {Rep("x", a) \o <<"do", " ", "chak">> \o Rep("x", b) :
                a \in 0..MaxFill, b \in 0..MaxFill}

\* everything at rest, the pure function's argument drawn from Inputs
InitPure(Inputs) ==
    /\ mock_mode = FALSE
    /\ pc = "idle"
    /\ tool = "none"
    /\ carrier = <<>>
    /\ raw = <<>>
    /\ op = "none"
    /\ tracking_number = <<>>
    /\ carrier_code = None
    /\ detected_code = None
    /\ idx = 0
    /\ fetched = <<>>
    /\ response = NoResponse
    /\ result = NoResult
    /\ output = NoOutput
    /\ numbers = <<>>
    /\ results = <<>>
    /\ world = Free
    /\ arg \in Inputs
    /\ ret = NoResult

\* op(arg) is evaluated to value
PureCall(name, value) ==
    /\ pc = "idle"
    /\ op' = name
    /\ ret' = value
    /\ pc' = "done"
    /\ UNCHANGED <<mock_mode, tool, carrier, raw, tracking_number, carrier_code,
                   detected_code, idx, fetched, response, result, output,
                   numbers, results, world, arg>>

\* translate_status(raw_status) is evaluated
TranslateCall == PureCall("translate", translate_status(arg))

SpecStatus == InitPure(StatusInputs) /\ [][TranslateCall]_vars

(* ----------------------------- tools/diagnose --------------------------- *)

\* the formats _analyze_stagnation tries, in order
StagnationFormats == <<"%Y-%m-%d %H:%M:%S", "%Y-%m-%d %H:%M", "%Y.%m.%d %H:%M">>

\* a time string written in format fmt for the moment hours_ago hours before
\* now (after now when negative)
TimeIn(fmt, hours_ago) == <<fmt, "hours ago", hours_ago>>

\* datetime.strptime(s, fmt): "ok", or the exception raised
strptime(s, fmt) ==
    IF s = None THEN "TypeError"
    ELSE IF Len(s) = 3 /\ s[1] = fmt THEN "ok"
    ELSE "ValueError"

IdleDays_roundedUp(hours_ago) == (hours_ago + 23) \div 24

\* (datetime.now() - last_time).days: whole days, rounded towards minus infinity
IdleDays(hours_ago) == hours_ago \div 24

\* a choice that asks for the airport before the hub
PossibleCauses_airportFirst(location) ==
    IF Contains(<<"gong", "hang">>, location)
    THEN <<<<"customs delay", 70>>, <<"customs inspection", 20>>, <<"paperwork", 10>>>>
    ELSE IF Contains(<<"heo", "beu">>, location)
              \/ Contains(<<"teo", "mi", "neol">>, location)
    THEN <<<<"sorting backlog", 60>>, <<"missed in sorting", 30>>, <<"system error", 10>>>>
    ELSE <<<<"backlog", 50>>, <<"route change", 25>>,
           <<"possibly missed in sorting", 25>>>>

\* the possible_causes of a stagnant parcel, by its last location
PossibleCauses(location) ==
    IF Contains(<<"heo", "beu">>, location)
         \/ Contains(<<"teo", "mi", "neol">>, location)
    THEN <<<<"sorting backlog", 60>>, <<"missed in sorting", 30>>, <<"system error", 10>>>>
    ELSE IF Contains(<<"gong", "hang">>, location)
    THEN <<<<"customs delay", 70>>, <<"customs inspection", 20>>, <<"paperwork", 10>>>>
    ELSE <<<<"backlog", 50>>, <<"route change", 25>>,
           <<"possibly missed in sorting", 25>>>>

NotStagnant(last_location) ==
    [is_stagnant |-> FALSE,
     days_stagnant |-> 0,
     last_location |-> last_location,
     possible_causes |-> <<>>]

_analyze_stagnation(events, code) ==
    IF events = <<>> THEN NotStagnant(None)
    ELSE
      LET last_event == events[Len(events)]
          last_time_str == last_event.time
          tried == {i \in DOMAIN StagnationFormats :
                       strptime(last_time_str, StagnationFormats[i]) # "ValueError"}
      IN  IF tried = {} THEN NotStagnant(last_event.location)
          ELSE IF strptime(last_time_str, StagnationFormats[Min(tried)]) # "ok"
          THEN NotStagnant(last_event.location)
          ELSE
            LET days_since == IdleDays(last_time_str[3])
                location == IF last_event.location \in {None, <<>>}
                            THEN <<>> ELSE last_event.location
            IN  IF days_since >= 2
                THEN [is_stagnant |-> TRUE,
                      days_stagnant |-> days_since,
                      last_location |-> location,
                      possible_causes |-> PossibleCauses(location)]
                ELSE NotStagnant(last_event.location)

\* the furthest from now, in hours, that the last event lies
MaxIdleHours == 50

StagnationTimes ==
    {TimeIn(fmt, h) : fmt \in {StagnationFormats[i] : i \in DOMAIN StagnationFormats}
                                  \cup {"%Y/%m/%d %H:%M"},
                      h \in (0 - MaxIdleHours)..MaxIdleHours}
      \cup {<<>>, None}

StagnationLocations ==
    {None, <<>>, LocGu, LocHUB, <<"dae", "jeon", "heo", "beu">>,
     <<"ok", "cheon", "teo", "mi", "neol">>, <<"in", "cheon", "gong", "hang">>,
     <<"in", "cheon", "gong", "hang", " ", "heo", "beu">>}

\* event lists: none, one event, or an older event before it
StagnationInputs ==
    {<<>>}
      \cup {<<TrackingEvent(t, StUnloaded, l, <<>>)>> :
                t \in StagnationTimes, l \in StagnationLocations}
      \cup {<<TrackingEvent(TimeIn(StagnationFormats[1], MaxIdleHours), StPickup,
                            <<"dae", "jeon", "heo", "beu">>, <<>>),
              TrackingEvent(t, StUnloaded, LocGu, <<>>)>> : t \in StagnationTimes}

\* _analyze_stagnation(events, carrier_code) is evaluated
StagnationCall == PureCall("stagnation", _analyze_stagnation(arg, C04))

SpecStagnation == InitPure(StagnationInputs) /\ [][StagnationCall]_vars

(* --------------------- track on one answered request ------------------- *)

\* the kind values of the entries of a payload
PayloadKinds ==
    {StPickup, StUnloaded, StSM, StDeparted, StDelivered, StReturned,
     <<"bae", "dal", "jung">>, <<"mi", "bae", "dal">>,
     <<"chul", "bal", "wan", "ryo">>,
     <<"bae", "dal", "chul", "bal", " ", "wan", "ryo">>,
     <<>>, Absent, None}

\* the most entries a trackingDetails list has
MaxDetails == 2

\* lists of up to MaxDetails entries, the i-th being i hours younger than the
\* one before it
PayloadDetailLists ==
    {[tag |-> "absent"], [tag |-> "null"]} \cup
    UNION {{[tag |-> "list",
             items |-> [i \in 1..n |-> Detail(TimeStr(0, MaxDetails + 1 - i), ks[i], LocGu)]] :
               ks \in [1..n -> PayloadKinds]} : n \in 0..MaxDetails}

\* answers of the one request: a JSON body or a timeout
PayloadInputs ==
    {[kind |-> "timeout"]} \cup
    {[kind |-> "json",
      data |-> [status |-> st, msg |-> Absent, completeYN |-> yn,
                trackingDetails |-> dl,
                senderName |-> Absent, receiverName |-> Absent, itemName |-> Absent]] :
        st \in {Absent, <<"false">>}, yn \in {Absent, <<"Y">>, <<"N">>},
        dl \in PayloadDetailLists}

\* track(tracking_number, carrier_code) is evaluated, its request answered by arg
PayloadCall == PureCall("payload", track(N12, C04, arg))

SpecPayload == InitPure(PayloadInputs) /\ [][PayloadCall]_vars

(* ------------------------- utils/tracking_parser ----------------------- *)

\* the characters of a text that are not \w
NonWordChars == {" ", "[", "]", "-", ":", ",", "."}

IsWord(c) == c \notin NonWordChars

\* how many characters of the class cs stand in s from position p on
RECURSIVE RunLen(_, _, _)
RunLen(s, p, cs) ==
    IF p <= Len(s) /\ s[p] \in cs THEN 1 + RunLen(s, p + 1, cs) ELSE 0

\* s has sub at position p
HasAt(s, p, sub) ==
    p >= 1 /\ p + Len(sub) - 1 <= Len(s) /\ SubSeq(s, p, p + Len(sub) - 1) = sub

\* there is a \b before position p of s, p being a \w character
BoundaryBefore(s, p) == p = 1 \/ ~IsWord(s[p - 1])

\* there is a \b after position p - 1 of s, a \w character
BoundaryAt(s, p) == p > Len(s) \/ ~IsWord(s[p])

\* the positions of CARRIER_ALIASES whose alias occurs in text_lower
AliasesIn(text_lower) ==
    {i \in DOMAIN CARRIER_ALIASES : Contains(CARRIER_ALIASES[i][1], text_lower)}

\* re.search(r"\[([\w\s]+)\]", text): group(1) of the leftmost match, or None
BracketGroup(text) ==
    LET class == {c \in Range(text) : IsWord(c) \/ c = " "}
        starts == {i \in DOMAIN text :
                      /\ text[i] = "["
                      /\ RunLen(text, i + 1, class) >= 1
                      /\ HasAt(text, i + 1 + RunLen(text, i + 1, class), <<"]">>)}
    IN  IF starts = {} THEN None
        ELSE SubSeq(text, Min(starts) + 1,
                    Min(starts) + RunLen(text, Min(starts) + 1, class))

\* re.search(r"([\w]+" + suffix + ")", text): group(1) of the leftmost,
\* longest match, or None
SuffixGroup(text, suffix) ==
    LET ends(i) == {j \in i..Len(text) :
                       /\ j - i + 1 > Len(suffix)
                       /\ \A k \in i..j : IsWord(text[k])
                       /\ HasAt(text, j - Len(suffix) + 1, suffix)}
        starts == {i \in DOMAIN text : ends(i) # {}}
    IN  IF starts = {} THEN None
        ELSE LET i == Min(starts)
                 j == CHOOSE m \in ends(i) : \A n \in ends(i) : n <= m
             IN  SubSeq(text, i, j)

\* match.group(1).lower().replace(" ", "") when that is a key of
\* CARRIER_ALIASES, else None
AliasOfGroup(group) ==
    IF group = None THEN None
    ELSE IF AliasCode(RemoveAll(lower(group), {" "})) # None
    THEN RemoveAll(lower(group), {" "})
    ELSE None

\* extract_carrier_name: the first alias of the table found anywhere in the
\* lowercased text, else the first of the three patterns whose group is an alias
extract_carrier_name(text) ==
    LET text_lower == lower(text)
        found == << AliasOfGroup(BracketGroup(text)),
                    AliasOfGroup(SuffixGroup(text, <<"taek", "bae">>)),
                    AliasOfGroup(SuffixGroup(text, <<"lo", "ji", "seu">>)) >>
        hits == {k \in DOMAIN found : found[k] # None}
    IN  IF AliasesIn(text_lower) # {}
        THEN CARRIER_ALIASES[Min(AliasesIn(text_lower))][1]
        ELSE IF hits # {} THEN found[Min(hits)]
        ELSE None

\* the characters of the class [0-9\-\s]
NumberClass == Digits \cup {"-", " "}

\* the labels of the four explicit patterns, and whether \s*(?:beon ho)?
\* follows the label; the patterns are matched ignoring case
explicit_patterns ==
    << [label |-> <<"un", "song", "jang">>, number_word |-> TRUE],
       [label |-> <<"song", "jang">>, number_word |-> TRUE],
       [label |-> <<"i", "n", "v", "o", "i", "c", "e">>, number_word |-> FALSE],
       [label |-> <<"t", "r", "a", "c", "k", "i", "n", "g">>, number_word |-> FALSE] >>

\* one explicit pattern tried at position p of text: the start and the length
\* of group 1, or <<0, 0>> when there is no match at p. The separators before
\* the group are taken greedily and given back one by one until 10 characters
\* of the number class follow; the group takes up to 20 of them.
ExplicitAt(text, pat, p) ==
    IF ~HasAt(lower(text), p, pat.label) THEN <<0, 0>>
    ELSE
      LET q0 == p + Len(pat.label)
          q1 == IF pat.number_word THEN q0 + RunLen(text, q0, {" "}) ELSE q0
          word == pat.number_word /\ HasAt(text, q1, <<"beon", "ho">>)
          q2 == IF word THEN q1 + 2 ELSE q1
          lo == IF word THEN q2 ELSE q0
          hi == q2 + RunLen(text, q2, {":", " "})
          ok == {g \in lo..hi : RunLen(text, g, NumberClass) >= 10}
      IN  IF ok = {} THEN <<0, 0>>
          ELSE LET g == CHOOSE m \in ok : \A n \in ok : n <= m
                   r == RunLen(text, g, NumberClass)
               IN  <<g, IF r > 20 THEN 20 ELSE r>>

\* re.findall of one explicit pattern: the groups of the matches found from
\* position p on, left to right, none overlapping another
RECURSIVE FindExplicit(_, _, _)
FindExplicit(text, pat, p) ==
    IF p > Len(text) THEN <<>>
    ELSE LET m == ExplicitAt(text, pat, p) IN
         IF m = <<0, 0>> THEN FindExplicit(text, pat, p + 1)
         ELSE <<SubSeq(text, m[1], m[1] + m[2] - 1)>>
                \o FindExplicit(text, pat, m[1] + m[2])

\* re.findall(r"\b([0-9]{10,14})\b", text) from position p on
RECURSIVE FindNumbers(_, _)
FindNumbers(text, p) ==
    IF p > Len(text) THEN <<>>
    ELSE LET r == RunLen(text, p, Digits) IN
         IF /\ r >= 10 /\ r <= 14
            /\ BoundaryBefore(text, p)
            /\ BoundaryAt(text, p + r)
         THEN <<SubSeq(text, p, p + r - 1)>> \o FindNumbers(text, p + r)
         ELSE FindNumbers(text, p + 1)

\* the length of the match of \b(\d{3,5}[\-\s]\d{3,5}[\-\s]\d{3,5})\b at
\* position p, or 0
DashAt(text, p) ==
    LET r1 == RunLen(text, p, Digits)
        r2 == RunLen(text, p + r1 + 1, Digits)
        r3 == RunLen(text, p + r1 + r2 + 2, Digits)
    IN  IF /\ BoundaryBefore(text, p)
           /\ r1 \in 3..5 /\ r2 \in 3..5 /\ r3 \in 3..5
           /\ text[p + r1] \in {"-", " "}
           /\ text[p + r1 + 1 + r2] \in {"-", " "}
           /\ BoundaryAt(text, p + r1 + r2 + r3 + 2)
        THEN r1 + r2 + r3 + 2
        ELSE 0

\* re.findall of the dash pattern from position p on
RECURSIVE FindDashed(_, _)
FindDashed(text, p) ==
    IF p > Len(text) THEN <<>>
    ELSE LET n == DashAt(text, p) IN
         IF n = 0 THEN FindDashed(text, p + 1)
         ELSE <<SubSeq(text, p, p + n - 1)>> \o FindDashed(text, p + n)

InSeq(x, xs) == \E i \in DOMAIN xs : xs[i] = x

\* the explicit loop: every match whose normalised length is 10..15 is appended
RECURSIVE AppendExplicit(_, _)
AppendExplicit(candidates, matches) ==
    IF matches = <<>> THEN candidates
    ELSE LET normalized == normalize_tracking_number(Head(matches)) IN
         AppendExplicit(IF Len(normalized) >= 10 /\ Len(normalized) <= 15
                        THEN Append(candidates, normalized) ELSE candidates,
                        Tail(matches))

\* the standalone loop: a match is appended unless it is a candidate already
RECURSIVE AppendNumbers(_, _)
AppendNumbers(candidates, matches) ==
    IF matches = <<>> THEN candidates
    ELSE AppendNumbers(IF InSeq(Head(matches), candidates)
                       THEN candidates ELSE Append(candidates, Head(matches)),
                       Tail(matches))

\* the dash loop: normalised, appended when new and of length 10..15
RECURSIVE AppendDashed(_, _)
AppendDashed(candidates, matches) ==
    IF matches = <<>> THEN candidates
    ELSE LET normalized == normalize_tracking_number(Head(matches)) IN
         AppendDashed(IF /\ ~InSeq(normalized, candidates)
                         /\ Len(normalized) >= 10 /\ Len(normalized) <= 15
                      THEN Append(candidates, normalized) ELSE candidates,
                      Tail(matches))

RECURSIVE ExplicitCandidates(_, _, _)
ExplicitCandidates(text, candidates, k) ==
    IF k > Len(explicit_patterns) THEN candidates
    ELSE ExplicitCandidates(text,
             AppendExplicit(candidates, FindExplicit(text, explicit_patterns[k], 1)),
             k + 1)

extract_tracking_numbers(text) ==
    AppendDashed(AppendNumbers(ExplicitCandidates(text, <<>>, 1),
                               FindNumbers(text, 1)),
                 FindDashed(text, 1))

\* binary64 numbers from 0.5 up to 2, written <<hi, lo>> for
\* (hi * FBase + lo) * 2^-55
FBase == 2^27

F0_5 == <<2^27, 0>>
F0_2 == <<53687091, 26843546>>
F0_1 == <<26843545, 80530637>>
F0_9 == <<241591910, 53687092>>
F1_0 == <<2^28, 0>>

\* a <= b
FLeq(a, b) == a[1] < b[1] \/ (a[1] = b[1] /\ a[2] <= b[2])

\* the binary64 nearest to x, ties to the even significand: below 1 the
\* numbers are 4 units apart, from 1 on 8 units
FRound(x) ==
    LET q == IF x[1] >= F1_0[1] THEN 8 ELSE 4
        r == x[2] % q
        down == x[2] - r
        up == IF (2 * r > q) \/ (2 * r = q /\ (x[2] \div q) % 2 = 1) THEN q ELSE 0
    IN  <<x[1] + (down + up) \div FBase, (down + up) % FBase>>

\* a + b in binary64
FAdd(a, b) ==
    FRound(<<a[1] + b[1] + (a[2] + b[2]) \div FBase, (a[2] + b[2]) % FBase>>)

\* min(a, b)
FMin(a, b) == IF FLeq(b, a) THEN b ELSE a

\* "un song jang" in text or "song jang" in text
Labelled(text) ==
    Contains(<<"un", "song", "jang">>, text) \/ Contains(<<"song", "jang">>, text)

\* the confidence of one candidate
Confidence(text, tracking_num, code) ==
    LET c0 == F0_5
        c1 == IF Len(tracking_num) >= 11 /\ Len(tracking_num) <= 13
              THEN FAdd(c0, F0_2) ELSE c0
        c2 == IF code # None THEN FAdd(c1, F0_2) ELSE c1
        c3 == IF Labelled(text) THEN FAdd(c2, F0_1) ELSE c2
    IN  FMin(c3, F1_0)

\* the source description of one candidate
SourceOf(text, mentioned_carrier, name) ==
    IF Labelled(text) THEN <<"from an explicit label">>
    ELSE IF mentioned_carrier # None
    THEN (IF name # None THEN name ELSE mentioned_carrier) \o <<" message">>
    ELSE <<"from a digit pattern">>

\* the loop over the candidates: carrier_code and carrier_name are the
\* function's variables, so what one candidate detects stays for the next
RECURSIVE ParseLoop(_, _, _, _, _, _)
ParseLoop(text, mentioned_carrier, code, name, candidates, parsed) ==
    IF candidates = <<>> THEN parsed
    ELSE
      LET tracking_num == Head(candidates)
          detected == IF code = None
                      THEN get_carrier_by_code(detect_carrier_from_tracking(tracking_num))
                      ELSE None
          code2 == IF detected # None THEN detected ELSE code
          name2 == IF detected # None THEN CarrierNameOf(detected) ELSE name
      IN  ParseLoop(text, mentioned_carrier, code2, name2, Tail(candidates),
                    Append(parsed,
                           [tracking_number |-> tracking_num,
                            carrier_code |-> code2,
                            carrier_name |-> name2,
                            confidence |-> Confidence(text, tracking_num, code2),
                            source |-> SourceOf(text, mentioned_carrier, name2)]))

parse_tracking_input(text) ==
    LET mentioned_carrier == extract_carrier_name(text)
        named == IF mentioned_carrier # None
                 THEN get_carrier_by_name(mentioned_carrier) ELSE None
    IN  ParseLoop(text, mentioned_carrier, named,
                  IF named # None THEN CarrierNameOf(named) ELSE None,
                  extract_tracking_numbers(text), <<>>)

\* carrier tokens put between brackets: each is an alias, also with capitals
\* or a space inside
BracketTokens ==
    {<<"C", "J", "dae", "han", "tong", "un">>, <<"han", "jin", "taek", "bae">>,
     <<"lot", "de", "taek", "bae">>, <<"woo", "che", "guk", "taek", "bae">>,
     <<"dae", "sin", "taek", "bae">>, <<"han", " ", "jin">>}

\* what stands before the bracket and what stands after the number
TextAround ==
    {<<>>, <<" ">>, <<"ip", "ni", "da">>, <<",">>,
     <<" ", "lot", "de", "ma", "teu">>, <<" ", "han", "jin">>,
     <<" ", "song", "jang">>, <<"un", "song", "jang", " ">>}

\* texts with a bracketed carrier token and a 12-digit number next to it
ParserInputs ==
    {pre \o <<"[">> \o b \o <<"]">> \o gap \o n \o post :
        pre \in TextAround, b \in BracketTokens, gap \in {<<>>, <<" ">>},
        n \in {N12, N12_6}, post \in TextAround}

\* parse_tracking_input(text) is evaluated
ParserCall == PureCall("parse", [parsed |-> parse_tracking_input(arg)])

SpecParser == InitPure(ParserInputs) /\ [][ParserCall]_vars

\* numbers as they stand in messages
TextNumbers ==
    {Rep("1", 10), N11, N12, N12_6, N13, N13_6, Rep("1", 14),
     <<"6", "1", "1", "1", "-", "1", "1", "1", "1", "-", "1", "1", "1", "1">>}

\* what stands before the first number: nothing, a label, or a carrier
TextLabels ==
    {<<>>, <<"un", "song", "jang", " ">>, <<"song", "jang", " ">>,
     <<"un", "song", "jang", " ", "beon", "ho", ":", " ">>,
     <<"i", "n", "v", "o", "i", "c", "e", " ">>,
     <<"T", "r", "a", "c", "k", "i", "n", "g", ":", " ">>,
     <<"han", "jin", " ">>}

\* messages with one number, or two numbers one after the other
ExtractInputs ==
    {l \o n : l \in TextLabels, n \in TextNumbers}
      \cup {l \o n1 \o sep \o n2 :
               l \in TextLabels, n1 \in TextNumbers, n2 \in TextNumbers,
               sep \in {<<" ">>, <<",", " ">>}}

SpecExtract == InitPure(ExtractInputs) /\ [][ParserCall]_vars

(* ------------------- tools/diagnose: diagnose_problem ----------------- *)

\* one recommended action: priority, action, detail
Action(priority, action, detail) ==
    [priority |-> priority, action |-> action, detail |-> detail]

\* carrier.contact if the code is a carrier's, else the word for "the carrier"
CarrierContact(code) ==
    IF get_carrier_by_code(code) # None THEN <<"phone of", code>> ELSE <<"taekbaesa">>

\* the buckets cut one day later
StagnantActions_cutLater(days, carrier_contact) ==
    IF days >= 6
    THEN <<Action(1, "ask the carrier whether it is lost", carrier_contact),
           Action(2, "ask the seller to confirm the delivery", <<"resend or refund">>)>>
    ELSE IF days >= 4
    THEN <<Action(1, "contact the carrier", carrier_contact),
           Action(2, "tell the seller", <<"report the delay">>)>>
    ELSE <<Action(1, "wait 1-2 more days", <<"may resolve by itself">>),
           Action(2, "contact the carrier if no better", carrier_contact)>>

\* the two actions for a parcel that has been idle for `days` days
StagnantActions(days, carrier_contact) ==
    IF days >= 5
    THEN <<Action(1, "ask the carrier whether it is lost", carrier_contact),
           Action(2, "ask the seller to confirm the delivery", <<"resend or refund">>)>>
    ELSE IF days >= 3
    THEN <<Action(1, "contact the carrier", carrier_contact),
           Action(2, "tell the seller", <<"report the delay">>)>>
    ELSE <<Action(1, "wait 1-2 more days", <<"may resolve by itself">>),
           Action(2, "contact the carrier if no better", carrier_contact)>>

\* the actions without the default for an empty list
_get_recommended_actions_noDefault(res, status_info, stagnation) ==
    LET carrier_contact == CarrierContact(res.carrier_code)
        stagnant == IF stagnation.is_stagnant
                    THEN StagnantActions(stagnation.days_stagnant, carrier_contact)
                    ELSE <<>>
        status_lower == lower(status_info.original)
    IN  IF status_info.phase = ISSUE /\ Contains(<<"ban", "song">>, status_lower)
        THEN <<Action(1, "contact the seller at once", <<"ask why and ask to resend">>)>>
        ELSE IF status_info.phase = ISSUE /\ Contains(<<"ju", "so">>, status_lower)
        THEN <<Action(1, "give the seller the right address", <<"ask to correct">>)>>
        ELSE IF status_info.phase = ISSUE /\ Contains(<<"bu", "jae">>, status_lower)
        THEN <<Action(1, "call the courier or ask to redeliver", <<"name a place">>)>>
        ELSE stagnant

\* _get_recommended_actions(result, status_info, stagnation): the stagnation
\* pair, replaced by one action for a returned, mis-addressed or absent ISSUE
\* status, and the default when the list is still empty
_get_recommended_actions(res, status_info, stagnation) ==
    LET carrier_contact == CarrierContact(res.carrier_code)
        stagnant == IF stagnation.is_stagnant
                    THEN StagnantActions(stagnation.days_stagnant, carrier_contact)
                    ELSE <<>>
        status_lower == lower(status_info.original)
        actions ==
            IF status_info.phase = ISSUE /\ Contains(<<"ban", "song">>, status_lower)
            THEN <<Action(1, "contact the seller at once", <<"ask why and ask to resend">>)>>
            ELSE IF status_info.phase = ISSUE /\ Contains(<<"ju", "so">>, status_lower)
            THEN <<Action(1, "give the seller the right address", <<"ask to correct">>)>>
            ELSE IF status_info.phase = ISSUE /\ Contains(<<"bu", "jae">>, status_lower)
            THEN <<Action(1, "call the courier or ask to redeliver", <<"name a place">>)>>
            ELSE stagnant
    IN  IF actions = <<>>
        THEN <<Action(1, "contact the carrier", carrier_contact)>>
        ELSE actions

\* the severity diagnose_problem prints
Severity(status_info, stagnation) ==
    IF status_info.phase = ISSUE THEN "simgak"
    ELSE IF stagnation.is_stagnant
    THEN IF stagnation.days_stagnant >= 5 THEN "simgak"
         ELSE IF stagnation.days_stagnant >= 3 THEN "juui"
         ELSE "gyeongmi"
    ELSE "jeongsang"

\* which block follows the severity line
Section(res, status_info, stagnation) ==
    IF stagnation.is_stagnant THEN "stagnation"
    ELSE IF status_info.phase = ISSUE THEN "issue"
    ELSE IF res.is_delivered THEN "delivered"
    ELSE "in progress"

\* what diagnose_problem returns once it holds the TrackingResult: the
\* failure text, or the parts its text is built from. The delivered and the
\* in-progress blocks return before the actions and the contact lines.
DiagnoseReport(res) ==
    IF ~res.success
    THEN [kind |-> "lookup_failed", error |-> res.error_message,
          contact |-> IF res.carrier_code # None
                      THEN CarrierContact(res.carrier_code)
                      ELSE <<"taekbaesa">>]
    ELSE LET status_info == translate_status(res.current_status)
             stagnation == _analyze_stagnation(res.events, res.carrier_code)
             section == Section(res, status_info, stagnation)
             returned == section \in {"delivered", "in progress"}
         IN  [kind |-> "diagnosis",
              number |-> Prefix(res.tracking_number, 8),
              status_info |-> status_info,
              severity |-> Severity(status_info, stagnation),
              section |-> section,
              stagnation |-> stagnation,
              actions |-> IF returned THEN <<>>
                          ELSE _get_recommended_actions(res, status_info, stagnation),
              contact |-> ~returned /\ get_carrier_by_code(res.carrier_code) # None]

\* diagnose_problem(tracking_number, carrier) when the carrier is found by name
\* or by detection, its one request answered by outcome (a carrier that is not
\* found goes through track_auto_detect, the actions EnterAuto to AutoMajor)
diagnose_problem(raw_number, carrier_arg, outcome) ==
    LET plan == other_tool_plan(raw_number, carrier_arg) IN
    CASE plan.kind = "reply" -> [kind |-> "reply", text |-> plan.text]
      [] plan.kind = "track" ->
           DiagnoseReport(track(normalize_tracking_number(raw_number),
                                plan.carrier_code, outcome))

\* the most days before now that the last event lies
MaxIdleDays == 6

\* the kind of the last entry of the payload
DiagnoseKinds ==
    {StUnloaded, StDeparted, StDelivered, StReturned, <<"mi", "bae", "dal">>,
     <<"bu", "jae">>, <<"ju", "so", "bul", "myeong">>, <<"bun", "sil">>,
     <<"bae", "dal", "jung">>, <<"x">>}

\* a payload of one entry, its time a whole number of days before now or an
\* hour less than the next whole day
DiagnosePayloads ==
    {[kind |-> "json",
      data |-> [status |-> Absent, msg |-> Absent, completeYN |-> yn,
                trackingDetails |->
                    [tag |-> "list", items |-> <<Detail(TimeStr(d, h), k, l)>>],
                senderName |-> Absent, receiverName |-> Absent, itemName |-> Absent]] :
        yn \in {Absent, <<"Y">>}, d \in 0..MaxIdleDays, h \in {0, 23},
        k \in DiagnoseKinds, l \in {LocGu, <<"dae", "jeon", "heo", "beu">>, None}}

\* payloads whose last event has no time that parses, or that have no event
DiagnoseUndated ==
    {[kind |-> "json",
      data |-> [status |-> Absent, msg |-> Absent, completeYN |-> Absent,
                trackingDetails |-> [tag |-> "list", items |-> items],
                senderName |-> Absent, receiverName |-> Absent, itemName |-> Absent]] :
        items \in {<<>>} \cup
            {<<Detail(t, k, LocGu)>> :
                t \in {Absent, None, <<>>, TimeIn("%Y/%m/%d %H:%M", 24 * MaxIdleDays)},
                k \in {StUnloaded, StReturned}}}

\* calls of diagnose_problem: a number the detection or the name settles, and
\* an answer of the upstream; or a number with no digit or letter
DiagnoseInputs ==
    {[raw |-> N12_6, carrier |-> c, outcome |-> o] :
        c \in {AUTO}, o \in DiagnosePayloads \cup DiagnoseUndated \cup {[kind |-> "timeout"]}}
      \cup {[raw |-> <<"-">>, carrier |-> AUTO, outcome |-> [kind |-> "timeout"]],
            [raw |-> N12, carrier |-> <<"han", "jin">>, outcome |-> [kind |-> "timeout"]]}

\* diagnose_problem is called and runs to its return
DiagnoseCall ==
    PureCall("diagnose", diagnose_problem(arg.raw, arg.carrier, arg.outcome))

\* _get_recommended_actions is evaluated on the successful res of the call
RecommendCall ==
    LET plan == other_tool_plan(arg.raw, arg.carrier)
        r == track(normalize_tracking_number(arg.raw), plan.carrier_code, arg.outcome)
        status_info == translate_status(r.current_status)
        stagnation == _analyze_stagnation(r.events, r.carrier_code)
    IN  /\ plan.kind = "track"
        /\ r.success
        /\ PureCall("recommend",
                    [status_info |-> status_info, stagnation |-> stagnation,
                     actions |-> _get_recommended_actions(r, status_info, stagnation)])

SpecDiagnose == InitPure(DiagnoseInputs) /\ [][DiagnoseCall \/ RecommendCall]_vars

(* ------------------------------ properties ----------------------------- *)

\* result holds a TrackingResult
HasResult == "events" \in DOMAIN result

\* the carrier codes requested upstream so far, in order
FetchedCodes == [i \in 1..Len(fetched) |-> fetched[i].carrier_code]

\* C1: with a real upstream, when track_auto_detect's pattern-detected
\* carrier answers successfully, that is the only request of the call and its
\* result is the one returned.
C1_OneFetchWhenDetectedSucceeds ==
    (op = "auto" /\ ~mock_mode /\ detected_code # None
       /\ fetched # <<>> /\ fetched[1].ok)
    => /\ pc = "done"
       /\ Len(fetched) = 1
       /\ fetched[1].carrier_code = detected_code
       /\ fetched[1].tracking_number = tracking_number
       /\ result = track(tracking_number, detected_code, response)
       /\ result.success = TRUE
       /\ result.carrier_code = detected_code

C1_Witness ==
    /\ op = "auto" /\ ~mock_mode /\ detected_code = C01
    /\ pc = "done" /\ Len(fetched) = 1 /\ fetched[1].ok
    /\ result.carrier_code = C01

C3_CascadeOrder ==
    (op = "auto" /\ ~mock_mode /\ detected_code # None
       /\ fetched # <<>> /\ ~fetched[1].ok)
    => LET Other(c) == c # detected_code
           expected == <<detected_code>> \o SelectSeq(<<C04, C08, C05, C01, C06>>, Other)
           n == Len(fetched)
       IN  /\ n <= 5
           /\ n <= Len(expected)
           /\ FetchedCodes = SubSeq(expected, 1, n)
           /\ \A i, j \in 1..n : i # j => FetchedCodes[i] # FetchedCodes[j]
           /\ \A i \in 1..(n - 1) : ~fetched[i].ok
           /\ pc # "done" => ~fetched[n].ok
           /\ (pc = "done" /\ fetched[n].ok)
                => result = track(tracking_number, FetchedCodes[n], response)
                     /\ result.success = TRUE
           /\ (pc = "done" /\ ~fetched[n].ok)
                => n = 5 /\ result.success = FALSE

C3_Witness ==
    /\ op = "auto" /\ ~mock_mode /\ detected_code = C01
    /\ pc = "done" /\ Len(fetched) = 4
    /\ ~fetched[1].ok /\ fetched[4].ok
    /\ FetchedCodes = <<C01, C04, C08, C05>>
    /\ result.carrier_code = C05

\* C4: a tool called with carrier "auto" whose first-guess (pattern-detected)
\* request fails goes on to request the other major carriers.
C4_ToolAutoFallsBack ==
    (tool \in SingleTools /\ lower(carrier) = AUTO /\ ~mock_mode /\ pc = "done"
       /\ fetched # <<>>
       /\ fetched[1].carrier_code
            = detect_carrier_from_tracking(normalize_tracking_number(raw))
       /\ ~fetched[1].ok)
    => Len(fetched) > 1

\* C6: a real track call makes exactly one upstream request, and an HTTP
\* status error, a timeout, any other exception, or a payload with
\* status == "false" or a msg key yields a TrackingResult with success false.
C6_TrackOneRequestNoRaise ==
    (op = "track" /\ ~mock_mode /\ pc = "done")
    => /\ Len(fetched) = 1
       /\ fetched[1].tracking_number = tracking_number
       /\ fetched[1].carrier_code = carrier_code
       /\ HasResult
       /\ (\/ response.kind \in {"http_status", "timeout", "exception"}
           \/ /\ response.kind = "json"
              /\ (response.data.status = <<"false">> \/ response.data.msg # Absent))
            => result.success = FALSE

C6_Witness ==
    /\ op = "track" /\ ~mock_mode /\ pc = "done"
    /\ response.kind = "timeout"
    /\ result.success = FALSE /\ Len(fetched) = 1

\* C7: every TrackingResult with success false has an empty events list.
C7_FailedHasNoEvents ==
    (HasResult /\ result.success = FALSE) => result.events = <<>>

C7_Witness ==
    /\ HasResult /\ result.success = FALSE
    /\ response.kind = "json"
    /\ response.data.msg = <<"upstream-msg">>
    /\ response.data.trackingDetails.tag = "list"
    /\ response.data.trackingDetails.items # <<>>
    /\ result.events = <<>>

\* C8: every TrackingResult with success false has an error_message that is
\* not None.
C8_FailedHasErrorMessage ==
    (HasResult /\ result.success = FALSE) => result.error_message # None

\* C9: every TrackingResult with is_delivered true has success true.
C9_DeliveredImpliesSuccess ==
    (HasResult /\ result.is_delivered = TRUE) => result.success = TRUE

C9_Witness ==
    /\ HasResult /\ ~mock_mode
    /\ result.is_delivered = TRUE /\ result.success = TRUE
    /\ response.kind = "json" /\ response.data.completeYN = <<"Y">>

\* C5: my_packages given more than ten non-empty numbers replies with the
\* rejection and no upstream request is made; given one to ten numbers it does
\* not reply with the rejection.
C5_TooManyRejectedBeforeFetch ==
    (tool = "my_packages" /\ raw # <<>>)
    => /\ Len(NonEmpty(ParseNumbers(raw))) > 10
         => /\ pc = "done"
            /\ output = [kind |-> "reply", text |-> "at most 10 at a time"]
            /\ fetched = <<>>
       /\ Len(ParseNumbers(raw)) \in 1..10
         => output # [kind |-> "reply", text |-> "at most 10 at a time"]

C5_Witness ==
    /\ tool = "my_packages" /\ ~mock_mode
    /\ Len(NonEmpty(ParseNumbers(raw))) = 11
    /\ pc = "done" /\ fetched = <<>>
    /\ output = [kind |-> "reply", text |-> "at most 10 at a time"]

\* C10 as stated: every all-digit string of length 13 is detected as Korea
\* Post, 01.
C10_Every13DigitsIsPost ==
    (op = "detect" /\ pc = "done"
       /\ Len(tracking_number) = 13 /\ isdigit(tracking_number))
    => detected_code = C01

\* C10 amended: an all-digit string of length 13 is detected as Korea Post,
\* 01, unless its first character is 6, in which case it is detected as CJ, 04.
C10_13DigitsPostUnless6 ==
    (op = "detect" /\ pc = "done"
       /\ Len(tracking_number) = 13 /\ isdigit(tracking_number))
    => detected_code = IF tracking_number[1] = "6" THEN C04 ELSE C01

C10_Witness ==
    /\ op = "detect" /\ pc = "done"
    /\ Len(tracking_number) = 13 /\ isdigit(tracking_number)
    /\ tracking_number[1] = "6" /\ tracking_number[2] = "1"
    /\ detected_code = C04

\* C11: a string that contains a non-digit character is never detected, also
\* when it has 12 or 13 characters and starts with 6.
C11_NonDigitNeverDetected ==
    (op = "detect" /\ pc = "done" /\ ~isdigit(tracking_number))
    => detected_code = None

\* C12: an all-digit string of length 11 is detected as Logen, 06; an
\* all-digit string of length 12 as CJ, 04, when its first character is 6 and
\* not at all otherwise.
C12_Length11And12 ==
    (op = "detect" /\ pc = "done" /\ isdigit(tracking_number))
    => /\ Len(tracking_number) = 11 => detected_code = C06
       /\ (Len(tracking_number) = 12 /\ tracking_number[1] = "6")
            => detected_code = C04
       /\ (Len(tracking_number) = 12 /\ tracking_number[1] # "6")
            => detected_code = None

C12_Witness ==
    /\ op = "detect" /\ pc = "done" /\ isdigit(tracking_number)
    /\ Len(tracking_number) = 12 /\ tracking_number[1] = "6"
    /\ tracking_number[12] = "1"
    /\ detected_code = C04

\* translate_status has answered arg
Translated == op = "translate" /\ pc = "done"

\* the lowercased space-stripped form of arg contains no keyword of the table
Unmatched == PartialMatches(StatusLower(arg)) = {}

TranslatedStatusFields ==
    {"original", "translated", "short", "phase", "emoji", "is_final", "estimated_hours"}

\* C13: translate_status answers every string, the empty one included, with a
\* TranslatedStatus; when the lowercased space-stripped input contains no
\* keyword of the table the answer is IN_TRANSIT, not final, its short text has
\* at most 6 characters, and estimated_hours is 24 if that form contains
\* "do chak" and None otherwise.
C13_TotalAndFallback ==
    Translated =>
        /\ DOMAIN ret = TranslatedStatusFields
        /\ ret.original = arg
        /\ Unmatched =>
              /\ ret.phase = IN_TRANSIT
              /\ ret.is_final = FALSE
              /\ Len(ret.short) <= 6
              /\ ret.short = Prefix(arg, 6)
              /\ ret.estimated_hours =
                    IF Contains(KwDoChak, StatusLower(arg)) THEN Hours(24) ELSE None

C13_Witness ==
    /\ Translated /\ Unmatched
    /\ Len(arg) > 6
    /\ Contains(KwDoChak, StatusLower(arg))
    /\ ~Contains(KwDoChak, arg)
    /\ ret.estimated_hours = Hours(24)
    /\ Len(ret.short) = 6

\* the ISSUE keywords after which nothing more happens to the parcel:
\* returned, refused, lost
TerminalIssues == {<<"ban", "song">>, <<"su", "chwi", "geo", "bu">>, <<"bun", "sil">>}

\* C14: whatever the way the answer was found, a DELIVERED answer is final; the
\* terminal ISSUE statuses are answered ISSUE and final; an answer for an input
\* with no keyword of the table is never final.
C14_DeliveredIsFinal ==
    Translated =>
        /\ ret.phase = DELIVERED => ret.is_final = TRUE
        /\ StatusLower(arg) \in TerminalIssues =>
               ret.phase = ISSUE /\ ret.is_final = TRUE
        /\ Unmatched => ret.is_final = FALSE

C14_Witness ==
    /\ Translated
    /\ StatusLower(arg) \notin StatusKeywords
    /\ ~Unmatched
    /\ ret.phase = DELIVERED
    /\ ret.is_final = TRUE

\* C15: estimated_hours is None whenever the answer is final, is in the ISSUE
\* phase, or was given for an input that matched no key of the table.
C15_NoEstimateWhenTerminal ==
    Translated =>
        ((ret.is_final = TRUE \/ ret.phase = ISSUE \/ Unmatched)
            => ret.estimated_hours = None)

\* ret carries the tuple of table position i
AnswersFrom(i) ==
    /\ ret.translated = STATUS_TRANSLATIONS[i].trans
    /\ ret.short = STATUS_TRANSLATIONS[i].short
    /\ ret.phase = STATUS_TRANSLATIONS[i].phase
    /\ ret.emoji = STATUS_TRANSLATIONS[i].emoji
    /\ ret.is_final = STATUS_TRANSLATIONS[i].is_final
    /\ ret.estimated_hours = STATUS_TRANSLATIONS[i].est

\* C20: when the lowercased space-stripped input equals a key, the answer is
\* that key's entry, also when an earlier key occurs inside it ("sm ip go" is
\* OUT_FOR_DELIVERY although "ip go" comes first); otherwise the answer is the
\* entry of the first key, in the order of the table, that occurs in the input.
C20_ExactThenFirstSubstring ==
    Translated =>
        LET status_lower == StatusLower(arg) IN
        /\ \A i \in DOMAIN STATUS_TRANSLATIONS :
              STATUS_TRANSLATIONS[i].keyword = status_lower => AnswersFrom(i)
        /\ (status_lower \notin StatusKeywords /\ ~Unmatched) =>
              \E i \in DOMAIN STATUS_TRANSLATIONS :
                 /\ Contains(STATUS_TRANSLATIONS[i].keyword, status_lower)
                 /\ \A j \in 1..(i - 1) :
                       ~Contains(STATUS_TRANSLATIONS[j].keyword, status_lower)
                 /\ AnswersFrom(i)
        /\ status_lower = lower(StSM) => ret.phase = OUT_FOR_DELIVERY
        /\ (Contains(lower(StSM), status_lower) /\ Len(status_lower) = Len(StSM) + 1)
              => ret.phase = IN_TRANSIT

C20_Witness ==
    /\ Translated
    /\ arg = <<"S", "M", " ", "ip", "go">>
    /\ Contains(<<"ip", "go">>, StatusLower(arg))
    /\ ret.phase = OUT_FOR_DELIVERY
    /\ ret.estimated_hours = Hours(6)

\* _analyze_stagnation has answered arg
Analyzed == op = "stagnation" /\ pc = "done"

\* the time of the last event of arg is written in one of the three formats
LastTimeParses ==
    /\ arg # <<>>
    /\ arg[Len(arg)].time # None
    /\ Len(arg[Len(arg)].time) = 3
    /\ \E i \in DOMAIN StagnationFormats : arg[Len(arg)].time[1] = StagnationFormats[i]

\* C17: _analyze_stagnation says is_stagnant exactly when there is an event,
\* the last event's time parses with one of the three formats and lies at least
\* 2 whole days before now; no events, an unparsable time, a time after now and
\* fewer than 2 idle days all give is_stagnant false, whatever the location.
C17_StagnantIffTwoIdleDays ==
    Analyzed =>
        /\ DOMAIN ret = {"is_stagnant", "days_stagnant", "last_location", "possible_causes"}
        /\ ret.is_stagnant = TRUE <=>
              (LastTimeParses /\ arg[Len(arg)].time[3] >= 2 * 24)
        /\ ret.is_stagnant = FALSE => (ret.days_stagnant = 0 /\ ret.possible_causes = <<>>)
        /\ arg = <<>> => ret.last_location = None

C17_Witness ==
    /\ Analyzed
    /\ Len(arg) = 2
    /\ arg[2].time = TimeIn("%Y.%m.%d %H:%M", 2 * 24)
    /\ ret.is_stagnant = TRUE
    /\ ret.days_stagnant = 2
    /\ ret.possible_causes[1] = <<"backlog", 50>>

\* track has answered from arg with a success result
ParsedOk == op = "payload" /\ pc = "done" /\ ret.success = TRUE

\* the trackingDetails entries of arg, as the provider sent them
SentDetails ==
    IF arg.data.trackingDetails.tag = "list" THEN arg.data.trackingDetails.items ELSE <<>>

\* the kind of the last entry sent, lowercased
SentLastStatus == lower(Get(SentDetails[Len(SentDetails)].kind, <<>>))

\* C18: for a successful payload is_delivered is true exactly when completeYN
\* is "Y", or there are events and the lowercased last status contains "wan ryo"
\* or contains "bae dal" without "chul bal"; a last status with both "wan ryo"
\* and "chul bal" is delivered; no events and no completion flag is not.
C18_DeliveredExactly ==
    ParsedOk =>
        /\ ret.is_delivered = TRUE <=>
              \/ arg.data.completeYN = <<"Y">>
              \/ /\ SentDetails # <<>>
                 /\ \/ Contains(KwWanRyo, SentLastStatus)
                    \/ /\ Contains(<<"bae", "dal">>, SentLastStatus)
                       /\ ~Contains(<<"chul", "bal">>, SentLastStatus)
        /\ (SentDetails # <<>> /\ Contains(KwWanRyo, SentLastStatus)
               /\ Contains(<<"chul", "bal">>, SentLastStatus))
              => ret.is_delivered = TRUE
        /\ (SentDetails = <<>> /\ arg.data.completeYN # <<"Y">>)
              => ret.is_delivered = FALSE

C18_Witness ==
    /\ ParsedOk
    /\ SentDetails # <<>>
    /\ Contains(KwWanRyo, SentLastStatus)
    /\ Contains(<<"chul", "bal">>, SentLastStatus)
    /\ arg.data.completeYN # <<"Y">>
    /\ ret.is_delivered = TRUE

\* C19: for a successful payload the events are the trackingDetails entries,
\* as many and in the same order, and current_status is the status of the last
\* event, or the sentinel when there is none.
C19_EventsInOrder ==
    ParsedOk =>
        /\ Len(ret.events) = Len(SentDetails)
        /\ \A i \in 1..Len(SentDetails) :
              /\ ret.events[i].time = Get(SentDetails[i].timeString, <<>>)
              /\ ret.events[i].status = Get(SentDetails[i].kind, <<>>)
              /\ ret.events[i].location = Get(SentDetails[i].where, <<>>)
        /\ ret.current_status =
              IF SentDetails = <<>> THEN <<"jeongbo eopseum">>
              ELSE Get(SentDetails[Len(SentDetails)].kind, <<>>)

C19_Witness ==
    /\ ParsedOk
    /\ Len(ret.events) = 2
    /\ ret.events[1].status = StPickup
    /\ ret.events[2].status = StDeparted
    /\ ret.events[1].time # ret.events[2].time
    /\ ret.current_status = StDeparted

\* parse_tracking_input has answered arg
Parsed == op = "parse" /\ pc = "done"

\* the carrier the bracketed token of arg names
BracketedCarrier == get_carrier_by_name(BracketGroup(arg))

\* the 12-digit number that follows the bracket of arg
AdjacentNumber ==
    LET close == CHOOSE i \in DOMAIN arg : arg[i] = "]"
        first == close + 1 + RunLen(arg, close + 1, {" "})
    IN  SubSeq(arg, first, first + 11)

\* C16: for a text with a bracketed alias and a 12-digit number next to it,
\* parse_tracking_input returns a candidate for that number, attributed to the
\* bracketed carrier, with confidence at least 0.9, also when the text mentions
\* other aliases.
C16_BracketedCarrierConfident ==
    Parsed =>
        \E i \in DOMAIN ret.parsed :
            /\ ret.parsed[i].tracking_number = AdjacentNumber
            /\ ret.parsed[i].carrier_code = BracketedCarrier
            /\ FLeq(F0_9, ret.parsed[i].confidence)

\* C21: the candidates never hold the same normalised number twice, also when
\* one number is matched by more than one explicit pattern or by several passes.
C21_NoDuplicateCandidates ==
    Parsed =>
        \A i, j \in DOMAIN ret.parsed :
            i # j => ret.parsed[i].tracking_number # ret.parsed[j].tracking_number

\* C22: when the text names no carrier, the carrier code of each candidate is
\* what pattern detection gives for that candidate's own number, whatever the
\* other candidates of the text and their order.
C22_CarrierPerCandidate ==
    (Parsed /\ extract_carrier_name(arg) = None) =>
        \A i \in DOMAIN ret.parsed :
            ret.parsed[i].carrier_code =
                get_carrier_by_code(
                    detect_carrier_from_tracking(ret.parsed[i].tracking_number))

\* the binary64 numbers 0.5, 0.6, 0.7, 0.8, 0.9 and 1.0
Tenths ==
    << F0_5, <<161061273, 80530636>>, <<187904819, 26843544>>,
       <<214748364, 107374184>>, F0_9, F1_0 >>

\* the text holds a label of the explicit patterns, in any case
HasLabelWord ==
    \E k \in DOMAIN explicit_patterns : Contains(explicit_patterns[k].label, lower(arg))

\* C23: the confidence of every candidate is min(1.0, 0.5 + 0.2 for a length of
\* 11..13 + 0.2 for an attributed carrier + 0.1 for a label word of the explicit
\* patterns in the text), hence one of 0.5, 0.6, ..., 1.0.
C23_ConfidenceInTenths ==
    Parsed =>
        \A i \in DOMAIN ret.parsed :
            LET n == Len(ret.parsed[i].tracking_number)
                tenths == (IF n >= 11 /\ n <= 13 THEN 2 ELSE 0)
                            + (IF ret.parsed[i].carrier_code # None THEN 2 ELSE 0)
                            + (IF HasLabelWord THEN 1 ELSE 0)
            IN  ret.parsed[i].confidence = Tenths[tenths + 1]

\* the location of the last event of arg, "" for None
LastLocation ==
    IF arg[Len(arg)].location = None THEN <<>> ELSE arg[Len(arg)].location

\* the percentages of the causes returned, in their order
CausePercents == [i \in DOMAIN ret.possible_causes |-> ret.possible_causes[i][2]]

\* C24: for a stagnant parcel the causes follow the last location: a hub or
\* terminal keyword gives the sorting set (60/30/10), also when an airport
\* keyword stands in the same location; else an airport keyword gives the
\* customs set (70/20/10); else the generic set (50/25/25), the percentages as
\* they are and in that order.
C24_CausesByLocation ==
    (Analyzed /\ ret.is_stagnant = TRUE) =>
        /\ (Contains(<<"heo", "beu">>, LastLocation)
              \/ Contains(<<"teo", "mi", "neol">>, LastLocation))
             => (CausePercents = <<60, 30, 10>>
                   /\ ret.possible_causes[1][1] = "sorting backlog")
        /\ (~Contains(<<"heo", "beu">>, LastLocation)
              /\ ~Contains(<<"teo", "mi", "neol">>, LastLocation)
              /\ Contains(<<"gong", "hang">>, LastLocation))
             => (CausePercents = <<70, 20, 10>>
                   /\ ret.possible_causes[1][1] = "customs delay")
        /\ (~Contains(<<"heo", "beu">>, LastLocation)
              /\ ~Contains(<<"teo", "mi", "neol">>, LastLocation)
              /\ ~Contains(<<"gong", "hang">>, LastLocation))
             => (CausePercents = <<50, 25, 25>>
                   /\ ret.possible_causes[1][1] = "backlog")

C24_Witness ==
    /\ Analyzed
    /\ ret.is_stagnant = TRUE
    /\ Contains(<<"heo", "beu">>, LastLocation)
    /\ Contains(<<"gong", "hang">>, LastLocation)
    /\ CausePercents = <<60, 30, 10>>

\* diagnose_problem has returned a diagnosis
Diagnosed == op = "diagnose" /\ pc = "done" /\ ret.kind = "diagnosis"

\* the idle days of the diagnosis
Idle == ret.stagnation.days_stagnant

\* C25: for a stagnant parcel whose phase is not ISSUE the severity is gyeongmi
\* (minor) below 3 idle days, juui (caution) for 3 and 4, simgak (serious) from
\* 5 on, and the two recommended actions are the wait pair, the contact pair
\* and the loss pair with the same cuts; a status of phase ISSUE has severity
\* simgak whatever the idle days.
C25_SeverityAndActionsByIdleDays ==
    Diagnosed =>
        /\ ret.status_info.phase = ISSUE => ret.severity = "simgak"
        /\ (ret.status_info.phase # ISSUE /\ ret.stagnation.is_stagnant = TRUE) =>
             /\ Len(ret.actions) = 2
             /\ Idle < 3 =>
                  /\ ret.severity = "gyeongmi"
                  /\ ret.actions[1].action = "wait 1-2 more days"
                  /\ ret.actions[2].action = "contact the carrier if no better"
             /\ (Idle >= 3 /\ Idle < 5) =>
                  /\ ret.severity = "juui"
                  /\ ret.actions[1].action = "contact the carrier"
                  /\ ret.actions[2].action = "tell the seller"
             /\ Idle >= 5 =>
                  /\ ret.severity = "simgak"
                  /\ ret.actions[1].action = "ask the carrier whether it is lost"
                  /\ ret.actions[2].action = "ask the seller to confirm the delivery"

C25_Witness ==
    /\ Diagnosed
    /\ ret.status_info.phase = IN_TRANSIT
    /\ ret.stagnation.is_stagnant = TRUE
    /\ Idle = 3
    /\ ret.severity = "juui"
    /\ ret.actions[1].action = "contact the carrier"

\* C26: a result flagged delivered whose payload does not say completeYN "Y"
\* has a current status that translate_status puts in the DELIVERED phase.
C26_DeliveredFlagMeansDeliveredPhase ==
    (ParsedOk /\ arg.data.completeYN # <<"Y">> /\ ret.is_delivered = TRUE) =>
        translate_status(ret.current_status).phase = DELIVERED

\* my_packages has returned its summary
BulkDone == tool = "my_packages" /\ pc = "done" /\ output.kind = "summary"

\* the phase of the i-th result's current status
PhaseOf(i) == translate_status(results[i].current_status).phase

\* the successful requests in the log
OkFetches == SelectSeq(fetched, LAMBDA f : f.ok)

\* C27: my_packages with 1 to 10 accepted numbers runs track_auto_detect once
\* per number, one after the other in input order (the cascade under way is
\* for the first number without a result; the i-th result is the i-th number's;
\* every successful call leaves one successful request), a failed number does
\* not end the loop, and the summary has every position in exactly one of the
\* five lists: failed, else delivered, else issues (phase ISSUE), else arriving
\* today (phase OUT_FOR_DELIVERY), else in transit; the sizes add up to N.
C27_OncePerNumberOneCategoryEach ==
    /\ (tool = "my_packages" /\ pc \in {"auto_first", "auto_major"}) =>
          /\ Len(results) < Len(numbers)
          /\ tracking_number = numbers[Len(results) + 1]
    /\ (tool = "my_packages" /\ pc # "idle" /\ output.kind # "reply") =>
          /\ \A i \in 1..Len(results) : results[i].tracking_number = numbers[i]
          /\ ~mock_mode =>
                Len(OkFetches) = Cardinality({i \in 1..Len(results) : results[i].success})
    /\ BulkDone =>
          LET N == Len(numbers) IN
          /\ N \in 1..MaxNumbers
          /\ Len(results) = N
          /\ Len(output.failed) + Len(output.delivered) + Len(output.issues)
               + Len(output.arriving_today) + Len(output.in_transit) = N
          /\ \A i \in 1..N :
               /\ i \in Range(output.failed) <=> ~results[i].success
               /\ i \in Range(output.delivered) <=>
                    (results[i].success /\ results[i].is_delivered)
               /\ i \in Range(output.issues) <=>
                    (results[i].success /\ ~results[i].is_delivered
                       /\ PhaseOf(i) = ISSUE)
               /\ i \in Range(output.arriving_today) <=>
                    (results[i].success /\ ~results[i].is_delivered
                       /\ PhaseOf(i) = OUT_FOR_DELIVERY)
               /\ i \in Range(output.in_transit) <=>
                    (results[i].success /\ ~results[i].is_delivered
                       /\ PhaseOf(i) \notin {ISSUE, OUT_FOR_DELIVERY})

C27_Witness ==
    /\ BulkDone
    /\ ~mock_mode
    /\ Len(numbers) >= 3
    /\ output.failed = <<1>>
    /\ output.issues # <<>>
    /\ Len(fetched) > Len(numbers)

\* the TrackingResult the diagnosis was built from
DiagnosedResult ==
    track(normalize_tracking_number(arg.raw),
          other_tool_plan(arg.raw, arg.carrier).carrier_code, arg.outcome)

\* C28: a successful result with is_delivered true and a status of the
\* DELIVERED phase is diagnosed with severity jeongsang (normal), with no
\* stagnation block and no recommended actions, however old its last event.
C28_DeliveredIsNoProblem ==
    (Diagnosed /\ DiagnosedResult.is_delivered = TRUE
       /\ ret.status_info.phase = DELIVERED) =>
        /\ ret.severity = "jeongsang"
        /\ ret.section = "delivered"
        /\ ret.actions = <<>>

\* a tool was called with a carrier that is not "auto", no alias and no
\* number of at most three digits, and a tracking number that is not empty
UnknownCarrier ==
    /\ tool \in SingleTools
    /\ pc # "idle"
    /\ normalize_tracking_number(raw) # <<>>
    /\ lower(carrier) # AUTO
    /\ get_carrier_by_name(carrier) = None
    /\ ~(isdigit(carrier) /\ Len(carrier) <= 3)

\* no client method was entered and no request was sent
NothingFetched == op = "none" /\ fetched = <<>> /\ result = NoResult

\* C29: with such a carrier track_package replies "carrier not found" and
\* fetches nothing, while diagnose_problem, predict_arrival and draft_inquiry
\* enter track_auto_detect with the normalized number; a tracking number that
\* is empty after normalization is refused by all four before any fetch.
C29_UnknownCarrierAndEmptyNumber ==
    /\ (UnknownCarrier /\ tool = "track_package") =>
          /\ pc = "done"
          /\ output = [kind |-> "reply", text |-> "carrier not found"]
          /\ NothingFetched
    /\ (UnknownCarrier /\ tool # "track_package") =>
          /\ op = "auto"
          /\ tracking_number = normalize_tracking_number(raw)
          /\ output.kind # "reply"
    /\ (tool \in SingleTools /\ pc # "idle" /\ normalize_tracking_number(raw) = <<>>) =>
          /\ pc = "done"
          /\ output = [kind |-> "reply", text |-> "enter a tracking number"]
          /\ NothingFetched

C29_Witness ==
    /\ UnknownCarrier
    /\ tool = "track_package"
    /\ raw # normalize_tracking_number(raw)
    /\ output = [kind |-> "reply", text |-> "carrier not found"]

\* _get_recommended_actions has been evaluated
Recommended == op = "recommend" /\ pc = "done"

\* the last event of the result lies a day or more, and less than two, before now
OneDayOld ==
    LET items == arg.outcome.data.trackingDetails.items IN
    /\ items # <<>>
    /\ Len(items[1].timeString) = 3
    /\ strptime(items[1].timeString, items[1].timeString[1]) = "ok"
    /\ items[1].timeString[3] >= 24
    /\ items[1].timeString[3] < 48

\* C30: an assessment of _analyze_stagnation is either not stagnant with 0
\* days and no causes (also when the last event is a day old), or stagnant with
\* at least 2 days and exactly three (cause, percent) pairs; and
\* _get_recommended_actions returns at least one action for every assessment.
C30_TwoShapesAndSomeAction ==
    Recommended =>
        /\ \/ /\ ret.stagnation.is_stagnant = FALSE
              /\ ret.stagnation.days_stagnant = 0
              /\ ret.stagnation.possible_causes = <<>>
           \/ /\ ret.stagnation.is_stagnant = TRUE
              /\ ret.stagnation.days_stagnant >= 2
              /\ Len(ret.stagnation.possible_causes) = 3
              /\ \A i \in 1..3 : Len(ret.stagnation.possible_causes[i]) = 2
        /\ OneDayOld => ret.stagnation.is_stagnant = FALSE
        /\ ret.actions # <<>>

C30_Witness ==
    /\ Recommended
    /\ OneDayOld
    /\ ret.stagnation.is_stagnant = FALSE
    /\ ret.stagnation.days_stagnant = 0
    /\ ret.status_info.phase = IN_TRANSIT
    /\ Len(ret.actions) = 1

====
